---- MODULE Spec2Model ----
(***************************************************************************)
(* A model of the supervision hierarchy of ConcurrentHarmony:              *)
(*   src/src/processor.py       Processor        (Worker)                  *)
(*   src/src/loop_processor.py  LoopProcessor    (LoopWorker)              *)
(*   src/src/runner.py          ProcessorsRunner (SupervisorTree)          *)
(*                                                                         *)
(* The object graph is the tree of the token-propagation scenario:         *)
(*   A = ProcessorsRunner(workers=[B, C]),  C = ProcessorsRunner([D]),     *)
(*   B, D = LoopProcessor.                                                 *)
(* Python evaluates constructor arguments first, so B and D are built      *)
(* before C, and B and C before A.                                         *)
(*                                                                         *)
(* The specifications share the variables:                                 *)
(*   SpecWire    construction, token attachment and wiring;                *)
(*   Spec        run() of an already constructed tree (SpecFair adds the   *)
(*               fairness of the OS scheduler);                            *)
(*   SpecPause   change_activity_state on private and shared pause events; *)
(*   SpecMail    the signal mailbox file and its SIGUSR1 doorbell;         *)
(*   SpecFormat  the struct format of a signal id;                         *)
(*   SpecDrain   the log queue worker and its grace window, with a clock;  *)
(*   SpecShutdown  a logging worker, the log queue worker and stop_logging;*)
(*   SpecTerm    SIGTERM delivered to the process-wide handler;            *)
(*   SpecLoop    run() of loop workers that are in no runner;              *)
(*   SpecActivate   the ACTIVATE and DEACTIVATE handlers of a loop worker;    *)
(*   SpecDrainFair  SpecDrain with a fair worker and a clock that runs on;    *)
(*   SpecSignals    a mailbox consumer and a loop worker in one process;      *)
(*   SpecStop    stop() and token attachment on built loop workers;           *)
(*   SpecSendFail   SpecMail with sends of ids that struct.pack rejects.      *)
(***************************************************************************)
EXTENDS Integers, Sequences, FiniteSets, TLC

None == "None"

Workers == {"A", "B", "C", "D"}
\* isinstance(worker, ProcessorsRunner)
Runners == {"A", "C"}
\* isinstance(worker, LoopProcessor)
Loops == {"B", "D"}
Root == "A"

\* ProcessorsRunner._workers, in list order
workers ==
  [w \in Workers |->
     CASE w = "A" -> <<"B", "C">>
       [] w = "C" -> <<"D">>
       [] OTHER   -> <<>>]

\* The multiprocessing.Event objects of the scenario.  E0 is the one object
\* created when "def __init__(..., is_waiting_event=multiprocessing.Event())"
\* is evaluated: every runner built without that argument gets this object.
Events == {"E0", "S", "S2", "P", "P2"}
DefaultWaitingEvent == "E0"
\* A value that is not a multiprocessing.synchronize.Event
NotEvent == "NotEvent"
\* The keyword argument was left out of the constructor call
Omitted == "Omitted"

VARIABLES
  \* ---- object state
  constructed,                                  \* the object exists
  stop_event,                                   \* Processor._stop_event
  stop_me_if_event_is_not_defined,              \* Processor._stop_me_if_event_is_not_defined
  is_waiting_event,                             \* LoopProcessor/ProcessorsRunner._is_waiting_event
  is_waiting_if_waiting_event_is_not_defined,   \* LoopProcessor._is_waiting_if_...
  start_active,                                 \* LoopProcessor._start_active
  is_active,                                    \* LoopProcessor._is_active
  ev,                                           \* Event -> is_set()
  \* ---- history of construction and attachment
  ctorStop,        \* the stop_event argument each constructor got
  ctorWait,        \* the is_waiting_event argument each constructor got
  firstStop,       \* the first token a worker ever held
  lastAttach,      \* the last explicit set_stop_event call and its result
  nAttach,         \* number of explicit set_stop_event calls made
  preWire,         \* the root's token and everybody's tokens just before the root last wired
  stopCalled,      \* set_stop_event_to_stop of some worker of the tree has run
  \* ---- run() of each worker
  pc,              \* position in run()
  exc,             \* an exception is propagating through run()
  outcome,         \* "none" | "returned" | "raised"
  tasks,           \* ProcessorsRunner._tasks (the workers the handles are bound to)
  idx,             \* loop index of _run_all / _join_all
  started,         \* task.start() has been called for the worker
  hooks,           \* the hooks run() has invoked, in order
  taskLog,         \* per runner: the start()/join() calls made, in order
  \* ---- history of the loop of a LoopProcessor
  iterBegan,       \* pause event state when the iteration began (its stop check)
  iterStable,      \* the pause event has not changed since the iteration began
  lastBody,        \* the last loop-body call and the condition of its iteration
  stateAtChange,   \* the worker's loop state when its pause event last changed
  nBecameActive,   \* _became_active calls since its pause event last changed (capped)
  nBecameInactive, \* _became_inactive calls since its pause event last changed (capped)
  pauseChanges,    \* number of set()/clear() calls made on pause events
  loopErr,         \* the loop-body call that raised in the current iteration, if any
  runErr,          \* what has raised in the finally clause of run(): "stop" (the stop
                   \* request), "after" (_after_body)
  \* ---- calls of LoopProcessor.change_activity_state
  cas,             \* per worker: "idle", or the branch its call in progress has chosen
  chain,           \* the calls made one after another, none overlapping, and the state before them
  nCalls,          \* number of change_activity_state calls begun
  \* ---- the user-signal mailbox (signals/multiproc_user_signals.py)
  consumers,       \* the UserSignalConsumerProcessors built in the receiving process, in order
  sigHandler,      \* whose handler the process has registered for SIGUSR1: the consumer (context)
                   \* of an on_common_signal, or the loop worker of an activate
  file,            \* context name -> the inode its path names (0: no such file)
  data,            \* inode -> content: 0 empty, k the id packed by the k-th send_user_signal
  lock,            \* inode -> depth of the handler frame holding the flock (0: free)
  nIno,            \* inodes created so far
  snd,             \* the producer's position in send_user_signal
  sent,            \* the send_user_signal calls begun, in order
  sigPending,      \* SIGUSR1 is pending for the receiving process
  frames,          \* the stack of on_common_signal invocations in the receiving process
  dispatched,      \* the on_user_signal calls made, in order
  seqOK,           \* no send_user_signal has overlapped a handler invocation or a pending signal
  lww,             \* the send that began while the value of the previous one was unread (0: none)
  nSpurious,       \* SIGUSR1 deliveries that no send_user_signal made
  handlerErr,      \* an exception has left on_common_signal
  lastRecv,        \* how the last get_signal that returned ended
  \* ---- the encoding of an id (SignalContext._struct_format, struct.pack/unpack)
  fEnum,           \* the enumeration given to SignalContext: its member count and largest id
  fFormat,         \* SignalContext._struct_format (None before the constructor)
  fId,             \* the id given to set_signal_id (0: no call yet)
  fPacked,         \* the bytes struct.pack produced
  fErr,            \* struct.pack raised struct.error
  fBack,           \* what get_signal unpacked (-1: no call yet)
  \* ---- LogQueueStreamProcessor (log/log_queue_stream_processor.py), with a clock
  dPc,                 \* position of the worker in LoopProcessor.run
  logQueue,            \* the records waiting in the multiprocessing.Queue
  dStop,               \* the worker's stop event is set
  dPause,              \* the worker's pause event is set
  near_to_stop,        \* LogQueueStreamProcessor._near_to_stop
  really_stop,         \* LogQueueStreamProcessor._really_stop
  last_msg_send_time,  \* LogQueueStreamProcessor._last_msg_send_time (-1: None)
  dNow,                \* time.monotonic(), in ticks
  dSince,              \* when the blocking call in progress (queue.get, sleep) began
  nArrivals,           \* records put on the queue so far
  dLastIn,             \* when the last record was put on the queue (-1: none)
  nPauseFlips,         \* set()/clear() calls made on the worker's pause event
  dObservedAt,         \* when _is_stopped first saw the stop request (-1: not yet)
  dLastDrain,          \* when the last record was handled after that (-1: none)
  dDeclared,           \* when _really_stop was set, and the last arrival before that
  dExitAt,             \* when the while loop ended (-1: not yet)
  dWaited,             \* the worker has run _wait_in_loop since it saw the stop request
  logFile,             \* the kinds of record the worker has written to its file
  \* A LoopProcessor that logs to the queue and shares the stop event, and the sentinel
  pPc,                 \* where the producer is in run()
  pBody,               \* how long its _work_in_loop takes, in ticks
  pAfter,              \* how long its _after_body takes, in ticks
  pSince,              \* when its call in progress began
  nSentinels,          \* LogManager.stop_logging calls so far
  dSentinelAt,         \* when the drain worker got None from the queue (-1: not yet)
  \* ---- the TERMINATE signal (Processor.register_signals, Processor._terminate)
  termHandler,         \* the worker whose _terminate the process has registered for SIGTERM
  nTerm,               \* SIGTERM deliveries so far
  termFor,             \* the workers that existed at the last delivery
  termStopped,         \* those of them that were stopped when the handler ended
  termRaised,          \* the handler of the last delivery raised
  \* ---- the ACTIVATE and DEACTIVATE signals (LoopProcessor.activate, LoopProcessor.deactivate)
  act,                 \* the ACTIVATE/DEACTIVATE handler invocation in progress
  lastAct,             \* the handler invocation that returned last
  nActs,               \* ACTIVATE/DEACTIVATE deliveries so far
  \* ---- the order of the edge hooks (LoopProcessor._react_if_activity_changes)
  lastHook,            \* the edge hook a loop worker called last in its run() (observed workers)
  hookAlt,             \* its edge hooks so far came in the order active, inactive, active, ...
  \* ---- send_user_signal with an id that struct.pack rejects
  nFailed              \* send_user_signal calls that ended by the struct.error of set_signal_id

objVars == <<constructed, stop_event, stop_me_if_event_is_not_defined, is_waiting_event,
             is_waiting_if_waiting_event_is_not_defined, start_active, is_active, ev>>
wireHist == <<ctorStop, ctorWait, firstStop, lastAttach, nAttach, preWire, stopCalled>>
runVars == <<pc, exc, outcome, tasks, idx, started, hooks, taskLog>>
loopHist == <<iterBegan, iterStable, lastBody, stateAtChange,
              nBecameActive, nBecameInactive, pauseChanges, loopErr, runErr>>
pauseVars == <<cas, chain, nCalls>>
\* The variables of the parts of the library outside the supervision tree's run()
mailVars == <<consumers, sigHandler, file, data, lock, nIno, snd, sent, sigPending, frames,
              dispatched, seqOK, lww, nSpurious, handlerErr, lastRecv>>
\* mailVars without the SIGUSR1 handler
mailRest == <<consumers, file, data, lock, nIno, snd, sent, sigPending, frames,
              dispatched, seqOK, lww, nSpurious, handlerErr, lastRecv>>
fmtVars == <<fEnum, fFormat, fId, fPacked, fErr, fBack>>
drainVars == <<dPc, logQueue, dStop, dPause, near_to_stop, really_stop, last_msg_send_time,
               dNow, dSince, nArrivals, dLastIn, nPauseFlips, dObservedAt, dLastDrain, dDeclared,
               dExitAt, dWaited, logFile>>
shutVars == <<pPc, pBody, pAfter, pSince, nSentinels, dSentinelAt>>
termVars == <<termHandler, nTerm, termFor, termStopped, termRaised>>
actVars == <<act, lastAct, nActs>>
hookVars == <<lastHook, hookAlt>>
failVars == <<nFailed>>
extVars == <<pauseVars, mailVars, fmtVars, drainVars, shutVars, termVars, actVars, hookVars, failVars>>
vars == <<objVars, wireHist, runVars, loopHist, extVars>>

-----------------------------------------------------------------------------
(* Processor: token attachment and the stop flag                           *)

\* A set_stop_event that overwrites an attached token.
set_stop_event_overwrite(held, arg) ==
  IF arg \in Events
    THEN [held |-> arg, ret |-> "True"]
    ELSE [held |-> held, ret |-> "ValueError"]

\* Processor.set_stop_event: the token held afterwards and what the call gives
set_stop_event(held, arg) ==
  IF held = None
    THEN IF arg \in Events
           THEN [held |-> arg, ret |-> "True"]
           ELSE [held |-> held, ret |-> "ValueError"]
    ELSE [held |-> held, ret |-> "False"]

\* LoopProcessor.set_waiting_event
set_waiting_event(held, arg) ==
  IF held = None
    THEN IF arg \in Events
           THEN [held |-> arg, ret |-> "None"]
           ELSE [held |-> held, ret |-> "ValueError"]
    ELSE [held |-> held, ret |-> "None"]

\* An _is_stopped that looks at the private flag only
is_stopped_private(w) == stop_me_if_event_is_not_defined[w]

\* Processor._is_stopped
is_stopped(w) ==
  IF stop_event[w] = None
    THEN stop_me_if_event_is_not_defined[w]
    ELSE ev[stop_event[w]]

\* A _new_activity_state that never looks at the pause event
activity_from_private_flag(w) == ~is_waiting_if_waiting_event_is_not_defined[w]

\* LoopProcessor._new_activity_state
new_activity_state(w) ==
  IF is_waiting_event[w] = None
    THEN ~is_waiting_if_waiting_event_is_not_defined[w]
    ELSE ~ev[is_waiting_event[w]]

-----------------------------------------------------------------------------
(* ProcessorsRunner: wiring the tokens down the tree                       *)

\* A wiring that does not recurse into nested runners.
RECURSIVE set_events_flat(_, _, _)
set_events_flat(r, i, st) ==
  IF i > Len(workers[r])
    THEN st
    ELSE
      LET w  == workers[r][i]
          s1 == IF w \in Loops /\ st.we[r] # None
                  THEN [st EXCEPT !.we[w] = set_waiting_event(@, st.we[r]).held]
                  ELSE st
          s2 == IF s1.se[r] # None
                  THEN [s1 EXCEPT !.se[w] = set_stop_event(@, s1.se[r]).held]
                  ELSE s1
      IN  set_events_flat(r, i + 1, s2)

\* ProcessorsRunner.set_events_to_processors, from the i-th worker of r on.
\* st = [se |-> the _stop_event of every worker, we |-> the _is_waiting_event].
RECURSIVE set_events_to_processors(_, _, _)
set_events_to_processors(r, i, st) ==
  IF i > Len(workers[r])
    THEN st
    ELSE
      LET w  == workers[r][i]
          s1 == IF w \in Loops /\ st.we[r] # None
                  THEN [st EXCEPT !.we[w] = set_waiting_event(@, st.we[r]).held]
                  ELSE st
          s2 == IF s1.se[r] # None
                  THEN [s1 EXCEPT !.se[w] = set_stop_event(@, s1.se[r]).held]
                  ELSE s1
          s3 == IF w \in Runners
                  THEN set_events_to_processors(w, 1, s2)
                  ELSE s2
      IN  set_events_to_processors(r, i + 1, s3)

\* The first token a worker ever held, given the tokens held after a step
FirstHeld(first, se) ==
  [w \in Workers |-> IF first[w] = None THEN se[w] ELSE first[w]]

-----------------------------------------------------------------------------
(* Values before construction / before run()                               *)

NoAttach == [w |-> None, arg |-> None, before |-> None, ret |-> None]
NoWire == [tok |-> None, before |-> [w \in Workers |-> None]]
NoCall == [body |-> None, began |-> FALSE, stable |-> FALSE]
NoChain == [n |-> 0, by |-> <<>>, ev |-> None, priv |-> None]

\* No change_activity_state call has been made
PauseIdle ==
  /\ cas = [w \in Workers |-> "idle"]
  /\ chain = NoChain
  /\ nCalls = 0

\* The mailbox contexts (SignalContext names) and the inodes their files can get
Contexts == {"X", "Y"}
MaxSends == 2
MaxFailed == 1
Inodes == 1..(MaxSends + MaxFailed)
SndIdle == [pc |-> "idle", ctx |-> None, ino |-> 0, k |-> 0]

\* No consumer built, no file written, no signal raised
MailIdle ==
  /\ consumers = <<>>
  /\ file = [c \in Contexts |-> 0]
  /\ data = [i \in Inodes |-> 0]
  /\ lock = [i \in Inodes |-> 0]
  /\ nIno = 0
  /\ snd = SndIdle
  /\ sent = <<>>
  /\ sigPending = FALSE
  /\ frames = <<>>
  /\ dispatched = <<>>
  /\ seqOK = TRUE
  /\ lww = 0
  /\ nSpurious = 0
  /\ handlerErr = FALSE
  /\ lastRecv = None

\* UserSignals: two members with auto() values 1 and 2
UserSignals == [len |-> 2, max |-> 2]

\* No SignalContext built for the encoding
FmtIdle ==
  /\ fEnum = UserSignals
  /\ fFormat = None
  /\ fId = 0
  /\ fPacked = <<>>
  /\ fErr = FALSE
  /\ fBack = -1

NotDeclared == [at |-> -1, lastIn |-> -1]

\* LogQueueStreamProcessor.__init__: the worker is built, run() not yet called,
\* the queue empty, the clock at 0
DrainIdle ==
  /\ dPc = "idle"
  /\ logQueue = <<>>
  /\ dStop = FALSE
  /\ dPause = FALSE
  /\ near_to_stop = FALSE
  /\ really_stop = FALSE
  /\ last_msg_send_time = -1
  /\ dNow = 0
  /\ dSince = 0
  /\ nArrivals = 0
  /\ dLastIn = -1
  /\ nPauseFlips = 0
  /\ dObservedAt = -1
  /\ dLastDrain = -1
  /\ dDeclared = NotDeclared
  /\ dExitAt = -1
  /\ dWaited = FALSE
  /\ logFile = {}

\* No producer and no sentinel
ShutIdle ==
  /\ pPc = "idle"
  /\ pBody = 0
  /\ pAfter = 0
  /\ pSince = 0
  /\ nSentinels = 0
  /\ dSentinelAt = -1

\* No SIGTERM has been delivered
TermIdle ==
  /\ nTerm = 0
  /\ termFor = {}
  /\ termStopped = {}
  /\ termRaised = FALSE

NoSnap == [ev |-> [e \in Events |-> FALSE], priv |-> [w \in Workers |-> FALSE]]
NoAct == [pc |-> "idle", w |-> None, sig |-> None, clean |-> FALSE, rep |-> FALSE,
          calls |-> -1, prev |-> NoSnap]
NoLastAct == [w |-> None, sig |-> None, clean |-> FALSE, rep |-> FALSE, calls |-> -1,
              prev |-> NoSnap, post |-> NoSnap]

\* No ACTIVATE or DEACTIVATE signal has been delivered
ActIdle ==
  /\ act = NoAct
  /\ lastAct = NoLastAct
  /\ nActs = 0


\* No edge hook has been called
HookIdle ==
  /\ lastHook = [w \in Workers |-> None]
  /\ hookAlt = [w \in Workers |-> TRUE]


\* No send_user_signal has failed
FailIdle == nFailed = 0


ExtIdle == PauseIdle /\ MailIdle /\ FmtIdle /\ DrainIdle /\ ShutIdle /\ TermIdle /\ ActIdle /\ HookIdle /\ FailIdle

RunIdle ==
  /\ pc = [w \in Workers |-> "idle"]
  /\ exc = [w \in Workers |-> FALSE]
  /\ outcome = [w \in Workers |-> "none"]
  /\ tasks = [w \in Workers |-> <<>>]
  /\ idx = [w \in Workers |-> 0]
  /\ started = [w \in Workers |-> FALSE]
  /\ hooks = [w \in Workers |-> <<>>]
  /\ taskLog = [w \in Workers |-> <<>>]
  /\ iterBegan = [w \in Workers |-> FALSE]
  /\ iterStable = [w \in Workers |-> FALSE]
  /\ lastBody = [w \in Workers |-> NoCall]
  /\ stateAtChange = [w \in Workers |-> None]
  /\ nBecameActive = [w \in Workers |-> 0]
  /\ nBecameInactive = [w \in Workers |-> 0]
  /\ pauseChanges = 0
  /\ loopErr = [w \in Workers |-> None]
  /\ runErr = [w \in Workers |-> {}]

-----------------------------------------------------------------------------
(* SpecWire: construction, attachment, wiring                              *)

\* Explicit set_stop_event calls made on the objects of one scenario
MaxAttachCalls == 2

\* The stop_event arguments the scenario passes to a constructor
CtorStopArgs(w) == IF w = Root THEN {None, "S"} ELSE {None, "S2"}
\* The is_waiting_event arguments the scenario passes to a constructor
CtorWaitArgs(w) ==
  CASE w = Root     -> {Omitted, None, "P"}
    [] w \in Runners -> {Omitted, None, "P2"}
    [] OTHER         -> {None, "P2"}

\* The start_active arguments the wiring scenario passes (the default)
CtorStartActive == {TRUE}

\* No worker of the tree is constructed
NothingBuilt ==
  /\ constructed = [w \in Workers |-> FALSE]
  /\ termHandler = None
  /\ sigHandler = None
  /\ stop_event = [w \in Workers |-> None]
  /\ stop_me_if_event_is_not_defined = [w \in Workers |-> FALSE]
  /\ is_waiting_event = [w \in Workers |-> None]
  /\ is_waiting_if_waiting_event_is_not_defined = [w \in Workers |-> FALSE]
  /\ start_active = [w \in Workers |-> TRUE]
  /\ is_active = [w \in Workers |-> TRUE]
  /\ ev = [e \in Events |-> FALSE]
  /\ ctorStop = [w \in Workers |-> None]
  /\ ctorWait = [w \in Workers |-> None]
  /\ firstStop = [w \in Workers |-> None]
  /\ lastAttach = NoAttach
  /\ nAttach = 0
  /\ preWire = NoWire
  /\ stopCalled = FALSE
  /\ RunIdle

InitWire == NothingBuilt /\ ExtIdle

\* LoopProcessor.__init__, with Processor.__init__, which calls register_signals:
\* _terminate for SIGTERM, activate for SIGUSR1, deactivate for SIGUSR2
NewLoopProcessor(w, se, we, sa) ==
  /\ w \in Loops
  /\ ~constructed[w]
  /\ constructed' = [constructed EXCEPT ![w] = TRUE]
  /\ stop_event' = [stop_event EXCEPT ![w] = se]
  /\ stop_me_if_event_is_not_defined' = [stop_me_if_event_is_not_defined EXCEPT ![w] = FALSE]
  /\ start_active' = [start_active EXCEPT ![w] = sa]
  /\ is_active' = [is_active EXCEPT ![w] = TRUE]
  /\ is_waiting_event' = [is_waiting_event EXCEPT ![w] = we]
  /\ is_waiting_if_waiting_event_is_not_defined' =
       [is_waiting_if_waiting_event_is_not_defined EXCEPT ![w] = ~sa]
  /\ ctorStop' = [ctorStop EXCEPT ![w] = se]
  /\ ctorWait' = [ctorWait EXCEPT ![w] = we]
  /\ firstStop' = FirstHeld(firstStop, stop_event')
  /\ UNCHANGED <<ev, lastAttach, nAttach, preWire, stopCalled, runVars, loopHist>>
  /\ termHandler' = w
  /\ UNCHANGED <<nTerm, termFor, termStopped, termRaised>>
  /\ sigHandler' = w
  /\ UNCHANGED <<mailRest, pauseVars, fmtVars, drainVars, shutVars, actVars, hookVars, failVars>>

\* ProcessorsRunner.__init__: Processor.__init__ (which registers _terminate),
\* the fields, then set_events_to_processors()
NewProcessorsRunner(r, se, wa) ==
  /\ r \in Runners
  /\ ~constructed[r]
  /\ \A i \in 1..Len(workers[r]) : constructed[workers[r][i]]
  /\ LET held == IF wa = Omitted THEN DefaultWaitingEvent ELSE wa
         st0  == [se |-> [stop_event EXCEPT ![r] = se],
                  we |-> [is_waiting_event EXCEPT ![r] = held]]
         st1  == set_events_to_processors(r, 1, st0)
     IN  /\ stop_event' = st1.se
         /\ is_waiting_event' = st1.we
         /\ preWire' = IF r = Root THEN [tok |-> se, before |-> stop_event] ELSE preWire
  /\ constructed' = [constructed EXCEPT ![r] = TRUE]
  /\ stop_me_if_event_is_not_defined' = [stop_me_if_event_is_not_defined EXCEPT ![r] = FALSE]
  /\ ctorStop' = [ctorStop EXCEPT ![r] = se]
  /\ ctorWait' = [ctorWait EXCEPT ![r] = wa]
  /\ firstStop' = FirstHeld(firstStop, stop_event')
  /\ UNCHANGED <<is_waiting_if_waiting_event_is_not_defined, start_active, is_active, ev,
                 lastAttach, nAttach, stopCalled, runVars, loopHist>>
  /\ termHandler' = r
  /\ UNCHANGED <<nTerm, termFor, termStopped, termRaised>>
  /\ UNCHANGED <<pauseVars, mailVars, fmtVars, drainVars, shutVars, actVars, hookVars, failVars>>

\* A call of Processor.set_stop_event(arg) on a constructed worker
SetStopEvent(w, arg) ==
  /\ constructed[w]
  /\ nAttach < MaxAttachCalls
  /\ nAttach' = nAttach + 1
  /\ LET res == set_stop_event(stop_event[w], arg)
     IN  /\ stop_event' = [stop_event EXCEPT ![w] = res.held]
         /\ lastAttach' = [w |-> w, arg |-> arg, before |-> stop_event[w], ret |-> res.ret]
  /\ firstStop' = FirstHeld(firstStop, stop_event')
  /\ UNCHANGED <<constructed, stop_me_if_event_is_not_defined, is_waiting_event,
                 is_waiting_if_waiting_event_is_not_defined, start_active, is_active, ev,
                 ctorStop, ctorWait, preWire, stopCalled, runVars, loopHist>>
  /\ UNCHANGED extVars

\* A call of ProcessorsRunner.set_events_to_processors() on a constructed runner
SetEventsToProcessors(r) ==
  /\ r \in Runners
  /\ constructed[r]
  /\ LET st1 == set_events_to_processors(r, 1, [se |-> stop_event, we |-> is_waiting_event])
     IN  /\ stop_event' = st1.se
         /\ is_waiting_event' = st1.we
  /\ preWire' = IF r = Root THEN [tok |-> stop_event[r], before |-> stop_event] ELSE preWire
  /\ firstStop' = FirstHeld(firstStop, stop_event')
  /\ UNCHANGED <<constructed, stop_me_if_event_is_not_defined,
                 is_waiting_if_waiting_event_is_not_defined, start_active, is_active, ev,
                 ctorStop, ctorWait, lastAttach, nAttach, stopCalled, runVars, loopHist>>
  /\ UNCHANGED extVars

NextWire ==
  \/ \E w \in Loops : \E se \in CtorStopArgs(w) : \E we \in CtorWaitArgs(w) :
       \E sa \in CtorStartActive : NewLoopProcessor(w, se, we, sa)
  \/ \E r \in Runners : \E se \in CtorStopArgs(r) : \E wa \in CtorWaitArgs(r) :
       NewProcessorsRunner(r, se, wa)
  \/ \E w \in Workers : \E arg \in {"S", "S2", NotEvent} : SetStopEvent(w, arg)
  \/ \E r \in Runners : SetEventsToProcessors(r)

SpecWire == InitWire /\ [][NextWire]_vars

-----------------------------------------------------------------------------
(* Claims settled under SpecWire                                           *)

\* C3: after any sequence of set_stop_event calls a worker holds the first
\* token it was ever given (by constructor, by wiring or by call); a call
\* made while a token is attached returns False and leaves the held token
\* unchanged, and a call with a token on a worker without one returns True
\* and attaches it.
C3_FirstTokenWins ==
  /\ \A w \in Workers : firstStop[w] # None => stop_event[w] = firstStop[w]
  /\ lastAttach.w # None =>
       /\ lastAttach.before # None =>
            /\ lastAttach.ret = "False"
            /\ stop_event[lastAttach.w] = lastAttach.before
       /\ (lastAttach.before = None /\ lastAttach.arg \in Events) =>
            /\ lastAttach.ret = "True"
            /\ stop_event[lastAttach.w] = lastAttach.arg

\* C3 witness: a call with a different token on a worker that holds one was refused
C3_Witness ==
  /\ lastAttach.w # None
  /\ lastAttach.ret = "False"
  /\ lastAttach.arg \in Events
  /\ lastAttach.arg # lastAttach.before
  /\ stop_event[lastAttach.w] = lastAttach.before

\* The workers below the root
Descendants == Workers \ {Root}

\* ProcessorsRunner._workers read upwards: the runner that lists w
Parent(w) == CHOOSE r \in Runners : \E i \in 1..Len(workers[r]) : workers[r][i] = w

\* C4 (as claimed): after the root A, holding token S, has wired its tree,
\* B, C and D hold S, except that a worker that held a token before keeps it.
C4_RootTokenReachesTree ==
  preWire.tok # None =>
    /\ stop_event[Root] = preWire.tok
    /\ \A w \in Descendants :
         stop_event[w] = IF preWire.before[w] = None THEN preWire.tok
                         ELSE preWire.before[w]

\* C4 (amended): after the root A, holding token S, has wired its tree, a
\* worker that held a token before keeps it, and a worker that held none
\* holds the token its parent runner holds after the wiring: S for B and C,
\* and for D the token of C, which is S whenever C held none (also when C
\* held none at the time C was constructed).
C4_ParentTokenReachesTree ==
  preWire.tok # None =>
    /\ stop_event[Root] = preWire.tok
    /\ \A w \in Descendants :
         stop_event[w] = IF preWire.before[w] = None THEN stop_event[Parent(w)]
                         ELSE preWire.before[w]
    /\ (preWire.before["C"] = None /\ preWire.before["D"] = None)
         => stop_event["D"] = preWire.tok

\* C4 witness: C and D were built without a token, B with its own; after the
\* root's wiring C and D hold the root's token and B still holds its own.
C4_Witness ==
  /\ preWire.tok = "S"
  /\ ctorStop["C"] = None /\ ctorStop["D"] = None
  /\ preWire.before["C"] = None /\ preWire.before["D"] = None
  /\ stop_event["C"] = "S" /\ stop_event["D"] = "S"
  /\ ctorStop["B"] = "S2" /\ stop_event["B"] = "S2"

\* C5 (as claimed): when the root holds a pause token and both the nested
\* runner C and the loop worker D were constructed without one, D's pause
\* token after the root's construction is the root's pause token.
C5_PauseTokenReachesGrandchild ==
  (/\ constructed[Root]
   /\ is_waiting_event[Root] # None
   /\ ctorWait["C"] = Omitted
   /\ ctorWait["D"] = None)
  => is_waiting_event["D"] = is_waiting_event[Root]

-----------------------------------------------------------------------------
(* Spec: run() of a constructed tree                                       *)

\* set()/clear() calls made on pause events during one run
MaxPauseChanges == 2
\* The hook counters stop counting here
HookCap == 2

\* Fields no step of run() assigns
fixedVars == <<constructed, stop_event, is_waiting_event,
               is_waiting_if_waiting_event_is_not_defined, start_active,
               ctorStop, ctorWait, firstStop, lastAttach, nAttach, preWire>>

\* The tree as the constructors leave it: B = LoopProcessor(start_active=saB),
\* D = LoopProcessor(), C = ProcessorsRunner(workers=[D]),
\* A = ProcessorsRunner(workers=[B, C], stop_event=seA, is_waiting_event=P).
Built(seA) ==
  LET none == [w \in Workers |-> None]
      stC  == set_events_to_processors("C", 1,
                [se |-> none, we |-> [none EXCEPT !["C"] = DefaultWaitingEvent]])
  IN  set_events_to_processors(Root, 1,
        [se |-> [stC.se EXCEPT ![Root] = seA], we |-> [stC.we EXCEPT ![Root] = "P"]])

Init ==
  \E seA \in CtorStopArgs(Root) : \E saB \in BOOLEAN : \E saD \in CtorStartActive :
    /\ constructed = [w \in Workers |-> TRUE]
    /\ termHandler = Root
    /\ sigHandler = "D"
    /\ stop_event = Built(seA).se
    /\ is_waiting_event = Built(seA).we
    /\ stop_me_if_event_is_not_defined = [w \in Workers |-> FALSE]
    /\ start_active = [w \in Workers |-> IF w = "B" THEN saB ELSE IF w = "D" THEN saD ELSE TRUE]
    /\ is_waiting_if_waiting_event_is_not_defined = [w \in Workers |-> ~start_active[w]]
    /\ is_active = [w \in Workers |-> TRUE]
    /\ ev = [e \in Events |-> FALSE]
    /\ ctorStop = [w \in Workers |-> IF w = Root THEN seA ELSE None]
    /\ ctorWait = [w \in Workers |-> IF w = Root THEN "P" ELSE IF w = "C" THEN Omitted ELSE None]
    /\ firstStop = stop_event
    /\ lastAttach = NoAttach
    /\ nAttach = 0
    /\ preWire = [tok |-> seA, before |-> [w \in Workers |-> None]]
    /\ stopCalled = FALSE
    /\ RunIdle
    /\ ExtIdle

\* Processor.set_stop_event_to_stop: what it does to the flags
set_stop_event_to_stop(w) ==
  /\ IF stop_event[w] # None
       THEN /\ ev' = [ev EXCEPT ![stop_event[w]] = TRUE]
            /\ UNCHANGED stop_me_if_event_is_not_defined
       ELSE /\ stop_me_if_event_is_not_defined' =
                 [stop_me_if_event_is_not_defined EXCEPT ![w] = TRUE]
            /\ UNCHANGED ev
  /\ stopCalled' = TRUE

\* Processor.stop(), called on a worker of the tree from anywhere
\* (a loop body, another worker, the TERMINATE handler)
Stop(w) ==
  /\ ~is_stopped(w)
  /\ set_stop_event_to_stop(w)
  /\ UNCHANGED <<fixedVars, is_active, runVars, loopHist>>
  /\ UNCHANGED extVars

\* The loop workers that read pause event e
Holders(e) == {w \in Loops : is_waiting_event[w] = e}
\* The loop worker whose iterations and edge hooks the history variables record
Observed == {"B"}
\* The observed workers that read pause event e
Watched(e) == Holders(e) \cap Observed
\* The pause events some loop worker reads
PauseEvents == {e \in Events : Holders(e) # {}}
\* The positions of the while loop of LoopProcessor.run
InLoop == {"check", "decide", "body"}

\* Event.set() / Event.clear() on a pause event, by whoever holds the object
PauseChange(e, to) ==
  /\ e \in PauseEvents
  /\ pauseChanges < MaxPauseChanges
  /\ ev[e] # to
  /\ ev' = [ev EXCEPT ![e] = to]
  /\ pauseChanges' = pauseChanges + 1
  /\ iterStable' = [w \in Workers |-> IF w \in Watched(e) THEN FALSE ELSE iterStable[w]]
  /\ lastBody' = [w \in Workers |-> IF w \in Watched(e) THEN NoCall ELSE lastBody[w]]
  /\ stateAtChange' =
       [w \in Workers |->
          IF w \in Watched(e)
            THEN IF pc[w] \in InLoop
                   THEN IF is_active[w] THEN "ACTIVE" ELSE "WAITING"
                   ELSE None
            ELSE stateAtChange[w]]
  /\ nBecameActive' = [w \in Workers |-> IF w \in Watched(e) THEN 0 ELSE nBecameActive[w]]
  /\ nBecameInactive' = [w \in Workers |-> IF w \in Watched(e) THEN 0 ELSE nBecameInactive[w]]
  /\ UNCHANGED <<fixedVars, stop_me_if_event_is_not_defined, is_active, stopCalled,
                 runVars, iterBegan, loopErr, runErr>>
  /\ UNCHANGED extVars

-----------------------------------------------------------------------------
(* Processor.run, with ProcessorsRunner._run_body as the body              *)

Cap(n) == IF n < HookCap THEN n + 1 ELSE HookCap

\* A run() whose cleanup is not in a finally clause: an exception leaves run() at once
finally_skipped == "done"

\* Processor.run: where an exception raised in the try block continues
\* ("finally:" runs _after_body)
finally_of_run == "after"

\* The main program calls run() of the root
RunRoot ==
  /\ pc[Root] = "idle"
  /\ pc' = [pc EXCEPT ![Root] = "before"]
  /\ UNCHANGED <<objVars, wireHist, exc, outcome, tasks, idx, started, hooks, taskLog, loopHist>>
  /\ UNCHANGED extVars

\* Processor.run: _init_logging(); _before_body()
BeforeBody(w, raises) ==
  /\ w \in Runners
  /\ pc[w] = "before"
  /\ hooks' = [hooks EXCEPT ![w] = Append(@, "before")]
  /\ exc' = [exc EXCEPT ![w] = raises]
  /\ pc' = [pc EXCEPT ![w] = IF raises THEN finally_of_run ELSE "body"]
  /\ UNCHANGED <<objVars, wireHist, outcome, tasks, idx, started, taskLog, loopHist>>
  /\ UNCHANGED extVars

\* ProcessorsRunner._run_body: self._tasks = self._get_tasks()
GetTasks(r) ==
  /\ r \in Runners
  /\ pc[r] = "body"
  /\ hooks' = [hooks EXCEPT ![r] = Append(@, "run")]
  /\ tasks' = [tasks EXCEPT ![r] = workers[r]]
  /\ idx' = [idx EXCEPT ![r] = 1]
  /\ pc' = [pc EXCEPT ![r] = IF Len(workers[r]) = 0 THEN "rb_finally" ELSE "start"]
  /\ UNCHANGED <<objVars, wireHist, exc, outcome, started, taskLog, loopHist>>
  /\ UNCHANGED extVars

\* ProcessorsRunner._run_all: p.start() of the next handle; start() may fail
StartTask(r, fails) ==
  /\ r \in Runners
  /\ pc[r] = "start"
  /\ LET c == tasks[r][idx[r]]
     IN  IF fails
           THEN /\ exc' = [exc EXCEPT ![r] = TRUE]
                /\ pc' = [pc EXCEPT ![r] = "rb_finally"]
                /\ UNCHANGED <<started, taskLog, idx>>
           ELSE /\ started' = [started EXCEPT ![c] = TRUE]
                /\ taskLog' = [taskLog EXCEPT ![r] = Append(@, <<"start", c>>)]
                /\ pc' = [pc EXCEPT ![c] = "before",
                                    ![r] = IF idx[r] = Len(tasks[r]) THEN "join" ELSE "start"]
                /\ idx' = [idx EXCEPT ![r] = IF idx[r] = Len(tasks[r]) THEN 1 ELSE @ + 1]
                /\ UNCHANGED exc
  /\ UNCHANGED <<objVars, wireHist, outcome, tasks, hooks, loopHist>>
  /\ UNCHANGED extVars

\* A join() that re-raises the error of the child's task.
JoinTaskReraising(r) ==
  /\ r \in Runners
  /\ pc[r] = "join"
  /\ LET c == tasks[r][idx[r]]
     IN  /\ pc[c] = "done"
         /\ taskLog' = [taskLog EXCEPT ![r] = Append(@, <<"join", c>>)]
         /\ exc' = [exc EXCEPT ![r] = (outcome[c] = "raised")]
         /\ pc' = [pc EXCEPT ![r] = IF idx[r] = Len(tasks[r]) \/ outcome[c] = "raised"
                                      THEN "rb_finally" ELSE "join"]
         /\ idx' = [idx EXCEPT ![r] = @ + 1]
  /\ UNCHANGED <<objVars, wireHist, outcome, tasks, started, hooks, loopHist>>
  /\ UNCHANGED extVars

\* ProcessorsRunner._join_all: p.join() of the next handle returns once the
\* child's run() has ended, however it ended
JoinTask(r) ==
  /\ r \in Runners
  /\ pc[r] = "join"
  /\ LET c == tasks[r][idx[r]]
     IN  /\ pc[c] = "done"
         /\ taskLog' = [taskLog EXCEPT ![r] = Append(@, <<"join", c>>)]
         /\ pc' = [pc EXCEPT ![r] = IF idx[r] = Len(tasks[r]) THEN "rb_finally" ELSE "join"]
         /\ idx' = [idx EXCEPT ![r] = @ + 1]
  /\ UNCHANGED <<objVars, wireHist, exc, outcome, tasks, started, hooks, loopHist>>
  /\ UNCHANGED extVars

\* A _run_body that empties the handle list when it is over
RunBodyFinallyClearing(r) ==
  /\ r \in Runners
  /\ pc[r] = "rb_finally"
  /\ set_stop_event_to_stop(r)
  /\ pc' = [pc EXCEPT ![r] = "after"]
  /\ tasks' = [tasks EXCEPT ![r] = <<>>]
  /\ UNCHANGED <<fixedVars, is_active, exc, outcome, idx, started, hooks, taskLog,
                 loopHist>>
  /\ UNCHANGED extVars

\* ProcessorsRunner._run_body: finally: self.set_stop_event_to_stop()
RunBodyFinally(r) ==
  /\ r \in Runners
  /\ pc[r] = "rb_finally"
  /\ set_stop_event_to_stop(r)
  /\ pc' = [pc EXCEPT ![r] = "after"]
  /\ UNCHANGED <<fixedVars, is_active, exc, outcome, tasks, idx, started, hooks, taskLog,
                 loopHist>>
  /\ UNCHANGED extVars

\* Processor.run: finally: self._after_body()
AfterBody(w, raises) ==
  /\ w \in Runners
  /\ pc[w] = "after"
  /\ hooks' = [hooks EXCEPT ![w] = Append(@, "after")]
  /\ pc' = [pc EXCEPT ![w] = IF raises THEN "done" ELSE "stop"]
  /\ outcome' = [outcome EXCEPT ![w] = IF raises THEN "raised" ELSE @]
  /\ UNCHANGED <<objVars, wireHist, exc, tasks, idx, started, taskLog, loopHist>>
  /\ UNCHANGED extVars

\* Processor.run: finally: ...; self.set_stop_event_to_stop()
RunSetStop(w) ==
  /\ w \in Runners
  /\ pc[w] = "stop"
  /\ set_stop_event_to_stop(w)
  /\ pc' = [pc EXCEPT ![w] = "done"]
  /\ outcome' = [outcome EXCEPT ![w] = IF exc[w] THEN "raised" ELSE "returned"]
  /\ UNCHANGED <<fixedVars, is_active, exc, tasks, idx, started, hooks, taskLog, loopHist>>
  /\ UNCHANGED extVars

-----------------------------------------------------------------------------
(* LoopProcessor.run                                                       *)

\* A level-triggered reaction: the hook fires on every iteration.
activity_always_changes(cur, new) == TRUE

\* A reaction that calls the hook of the active state whenever the worker is
\* to be active
activity_changes_to_active(cur, new) == new

\* LoopProcessor._react_if_activity_changes: "if is_active != self._is_active"
activity_changes(cur, new) == new # cur

\* is_set() of the worker's pause event (FALSE without one)
PauseIsSet(w) == IF is_waiting_event[w] = None THEN FALSE ELSE ev[is_waiting_event[w]]

\* LoopProcessor.run: _init_logging(); _before_body()
LoopBeforeBody(w, raises) ==
  /\ w \in Loops
  /\ pc[w] = "before"
  /\ hooks' = [hooks EXCEPT ![w] = Append(@, "before")]
  /\ pc' = [pc EXCEPT ![w] = IF raises THEN "l_finally" ELSE "l_init"]
  /\ UNCHANGED <<objVars, wireHist, exc, outcome, tasks, idx, started, taskLog,
                 iterBegan, iterStable, lastBody, stateAtChange, nBecameActive, nBecameInactive,
                 pauseChanges, loopErr,
                 runErr>>
  /\ UNCHANGED extVars

\* LoopProcessor._react_if_activity_changes: when it calls a hook, the hook
\* is _became_active or _became_inactive (hook); the record of the order of
\* the calls is kept for the observed workers
HookCalled(w, fires, hook) ==
  IF fires /\ w \in Observed
    THEN /\ lastHook' = [lastHook EXCEPT ![w] = hook]
         /\ hookAlt' = [hookAlt EXCEPT ![w] =
                          /\ @
                          /\ hook # lastHook[w]
                          /\ lastHook[w] = None => hook = "active"]
    ELSE UNCHANGED hookVars

\* LoopProcessor.run: self._is_active = False;
\* if self._start_active: self._react_if_activity_changes(True)
LoopStart(w, raises) ==
  /\ w \in Loops
  /\ pc[w] = "l_init"
  /\ LET fires == start_active[w] /\ activity_changes(FALSE, TRUE)
     IN  /\ raises => fires
         /\ is_active' = [is_active EXCEPT ![w] = fires]
         /\ nBecameActive' = [nBecameActive EXCEPT ![w] = IF fires /\ w \in Observed THEN Cap(@) ELSE @]
         /\ HookCalled(w, fires, "active")
  /\ pc' = [pc EXCEPT ![w] = IF raises THEN "l_finally" ELSE "check"]
  /\ UNCHANGED <<fixedVars, stop_me_if_event_is_not_defined, ev, stopCalled, exc, outcome,
                 tasks, idx, started, hooks, taskLog,
                 iterBegan, iterStable, lastBody, stateAtChange, nBecameInactive, pauseChanges, loopErr,
                 runErr>>
  /\ UNCHANGED <<pauseVars, mailVars, fmtVars, drainVars, shutVars, termVars, actVars, failVars>>

\* LoopProcessor.run: while not self._is_stopped()
LoopCheck(w) ==
  /\ w \in Loops
  /\ pc[w] = "check"
  /\ pc' = [pc EXCEPT ![w] = IF is_stopped(w) THEN "l_finally" ELSE "decide"]
  /\ iterBegan' = [iterBegan EXCEPT ![w] = w \in Observed /\ PauseIsSet(w)]
  /\ iterStable' = [iterStable EXCEPT ![w] = w \in Observed]
  /\ lastBody' = [lastBody EXCEPT ![w] = NoCall]
  /\ loopErr' = [loopErr EXCEPT ![w] = None]
  /\ UNCHANGED <<objVars, wireHist, exc, outcome, tasks, idx, started, hooks, taskLog,
                 stateAtChange, nBecameActive, nBecameInactive, pauseChanges, runErr>>
  /\ UNCHANGED extVars

\* LoopProcessor.run: is_active = self._new_activity_state();
\* self._react_if_activity_changes(is_active)
LoopDecide(w, raises) ==
  /\ w \in Loops
  /\ pc[w] = "decide"
  /\ LET new   == new_activity_state(w)
         fires == activity_changes(is_active[w], new)
     IN  /\ raises => fires
         /\ is_active' = [is_active EXCEPT ![w] = IF fires THEN new ELSE @]
         /\ nBecameActive' =
              [nBecameActive EXCEPT ![w] = IF fires /\ new /\ w \in Observed THEN Cap(@) ELSE @]
         /\ nBecameInactive' =
              [nBecameInactive EXCEPT ![w] = IF fires /\ ~new /\ w \in Observed THEN Cap(@) ELSE @]
         /\ HookCalled(w, fires, IF new THEN "active" ELSE "inactive")
  /\ pc' = [pc EXCEPT ![w] = IF raises THEN "l_finally" ELSE "body"]
  /\ UNCHANGED <<fixedVars, stop_me_if_event_is_not_defined, ev, stopCalled, exc, outcome,
                 tasks, idx, started, hooks, taskLog,
                 iterBegan, iterStable, lastBody, stateAtChange, pauseChanges, loopErr,
                 runErr>>
  /\ UNCHANGED <<pauseVars, mailVars, fmtVars, drainVars, shutVars, termVars, actVars, failVars>>

\* A loop whose iteration has no try/except of its own
caught_nowhere(body) == FALSE

\* LoopProcessor.run: the loop-body calls that sit inside the inner
\* "try: ... except Exception" of the iteration (_work_in_loop does,
\* _wait_in_loop in the else branch does not)
caught_in_iteration(body) == body = "work"

\* LoopProcessor.run: if self._is_active: try: _work_in_loop() except Exception: log
\* else: _wait_in_loop()
\* An error that is not caught in the iteration leaves the while loop for the
\* outer "except Exception" of run(), which logs it, and then the finally clause.
LoopBody(w, raises) ==
  /\ w \in Loops
  /\ pc[w] = "body"
  /\ LET body == IF is_active[w] THEN "work" ELSE "wait"
     IN  /\ lastBody' = [lastBody EXCEPT ![w] =
                           IF w \in Observed
                             THEN [body |-> body, began |-> iterBegan[w],
                                   stable |-> iterStable[w]]
                             ELSE @]
         /\ loopErr' = [loopErr EXCEPT ![w] = IF raises /\ w \in Observed THEN body ELSE @]
         /\ pc' = [pc EXCEPT ![w] = IF raises /\ ~caught_in_iteration(body)
                                      THEN "l_finally" ELSE "check"]
  /\ UNCHANGED <<objVars, wireHist, exc, outcome, tasks, idx, started, hooks, taskLog,
                 iterBegan, iterStable, stateAtChange, nBecameActive, nBecameInactive,
                 pauseChanges, runErr>>
  /\ UNCHANGED extVars

\* A finally clause whose stop request is not in a try of its own: its error
\* leaves run() at once
stop_error_leaves == "done"

\* LoopProcessor.run: finally: "try: ... except Exception:" around the stop
\* request: where run() continues when the request has raised
stop_error_caught == "after"

\* LoopProcessor.run: finally: try: self._set_stop_event_to_stop_and_log_it()
\* except Exception: log.  The request logs first and sets the event second:
\* when it raises, nothing has been set.  The failing request is tried on the
\* observed worker only.
LoopFinallyStop(w, raises) ==
  /\ w \in Loops
  /\ pc[w] = "l_finally"
  /\ raises => w \in Observed
  /\ IF raises
       THEN /\ pc' = [pc EXCEPT ![w] = stop_error_caught]
            /\ UNCHANGED <<ev, stop_me_if_event_is_not_defined, stopCalled>>
       ELSE /\ set_stop_event_to_stop(w)
            /\ pc' = [pc EXCEPT ![w] = "after"]
  /\ runErr' = [runErr EXCEPT ![w] = IF raises /\ w \in Observed THEN @ \cup {"stop"} ELSE @]
  /\ UNCHANGED <<fixedVars, is_active, exc, outcome, tasks, idx, started, hooks, taskLog,
                 iterBegan, iterStable, lastBody, stateAtChange, nBecameActive, nBecameInactive,
                 pauseChanges, loopErr>>
  /\ UNCHANGED extVars

\* LoopProcessor.run: finally: ...; self._after_body()
LoopAfterBody(w, raises) ==
  /\ w \in Loops
  /\ pc[w] = "after"
  /\ hooks' = [hooks EXCEPT ![w] = Append(@, "after")]
  /\ pc' = [pc EXCEPT ![w] = "done"]
  /\ outcome' = [outcome EXCEPT ![w] = IF raises THEN "raised" ELSE "returned"]
  /\ runErr' = [runErr EXCEPT ![w] = IF raises /\ w \in Observed THEN @ \cup {"after"} ELSE @]
  /\ UNCHANGED <<objVars, wireHist, exc, tasks, idx, started, taskLog,
                 iterBegan, iterStable, lastBody, stateAtChange, nBecameActive, nBecameInactive,
                 pauseChanges, loopErr>>
  /\ UNCHANGED extVars

-----------------------------------------------------------------------------

\* The steps worker w takes in its own process or thread
Step(w) ==
  \/ \E raises \in BOOLEAN : BeforeBody(w, raises)
  \/ GetTasks(w)
  \/ \E fails \in BOOLEAN : StartTask(w, fails)
  \/ JoinTask(w)
  \/ RunBodyFinally(w)
  \/ \E raises \in BOOLEAN : AfterBody(w, raises)
  \/ RunSetStop(w)
  \/ \E raises \in BOOLEAN : LoopBeforeBody(w, raises)
  \/ \E raises \in BOOLEAN : LoopStart(w, raises)
  \/ LoopCheck(w)
  \/ \E raises \in BOOLEAN : LoopDecide(w, raises)
  \/ \E raises \in BOOLEAN : LoopBody(w, raises)
  \/ \E raises \in BOOLEAN : LoopFinallyStop(w, raises)
  \/ \E raises \in BOOLEAN : LoopAfterBody(w, raises)

Next ==
  \/ RunRoot
  \/ \E w \in Workers : Step(w)
  \/ \E w \in Workers : Stop(w)
  \/ \E e \in Events : \E to \in BOOLEAN : PauseChange(e, to)

Spec == Init /\ [][Next]_vars

-----------------------------------------------------------------------------
(* Claims settled under Spec                                               *)

\* C1 (as claimed): once run() of a worker has ended, by whatever path, the
\* worker's stop event (or its private flag when it has no event) reports
\* that stop was requested.
C1_StopRequestedAfterRun ==
  \A w \in Workers : pc[w] = "done" => is_stopped(w)

\* Number of times hook h occurs in the sequence of invoked hooks
Count(seq, h) == Cardinality({i \in 1..Len(seq) : seq[i] = h})

\* C2: Processor.run invokes _before_body, _run_body, _after_body in that
\* order; _run_body is left out only when _before_body raised; and once the
\* try block is over _after_body has been invoked exactly once, also when
\* _before_body or _run_body raised.  (LoopProcessor.run, which has the loop
\* in place of _run_body, invokes _after_body exactly once as well.)
C2_HookOrder ==
  /\ \A w \in Runners :
       /\ hooks[w] \in {<<>>, <<"before">>, <<"before", "run">>,
                        <<"before", "run", "after">>, <<"before", "after">>}
       /\ hooks[w] = <<"before", "after">> => exc[w]
       /\ pc[w] \in {"stop", "done"} => Count(hooks[w], "after") = 1
       /\ pc[w] \notin {"stop", "done"} => Count(hooks[w], "after") = 0
  /\ \A w \in Loops :
       /\ pc[w] = "done" => hooks[w] = <<"before", "after">>
       /\ pc[w] # "done" => Count(hooks[w], "after") = 0

\* C2 witness: a run() in which _before_body raised has ended after one _after_body,
\* and another in which the body raised (a start() failed) has too
C2_Witness ==
  /\ pc["C"] = "done" /\ hooks["C"] = <<"before", "after">> /\ outcome["C"] = "raised"
  /\ pc[Root] = "done" /\ hooks[Root] = <<"before", "run", "after">>

\* C7 (as claimed): in a tree whose root runner was constructed without a
\* stop_event, a stop requested by any worker is seen by _is_stopped() of
\* every worker.
C7_ImplicitSharedStopEvent ==
  (ctorStop[Root] = None /\ stopCalled) => \A w \in Workers : is_stopped(w)

\* The workers of the start() calls / of the join() calls a runner has made, in order
Calls(r, op) ==
  LET F[i \in 0..Len(taskLog[r])] ==
        IF i = 0 THEN <<>>
        ELSE IF taskLog[r][i][1] = op THEN Append(F[i - 1], taskLog[r][i][2]) ELSE F[i - 1]
  IN  F[Len(taskLog[r])]

IsPrefix(a, b) == Len(a) <= Len(b) /\ \A i \in 1..Len(a) : a[i] = b[i]

\* C8: in ProcessorsRunner.run every child task is started before any is
\* joined, the handles are joined in start order, a join returns only after
\* the child's run() has ended, run() does not return before every child's
\* run() has ended, and once every child was started every handle is joined
\* before the runner goes on, also when a child's run() ended by an error.
C8_StartAllThenJoinAll ==
  \A r \in Runners :
    /\ \A i, j \in 1..Len(taskLog[r]) :
         (i < j) => ~(taskLog[r][i][1] = "join" /\ taskLog[r][j][1] = "start")
    /\ IsPrefix(Calls(r, "start"), workers[r])
    /\ IsPrefix(Calls(r, "join"), Calls(r, "start"))
    /\ Calls(r, "join") # <<>> => Calls(r, "start") = workers[r]
    /\ \A i \in 1..Len(Calls(r, "join")) : pc[Calls(r, "join")[i]] = "done"
    /\ outcome[r] = "returned" => \A i \in 1..Len(workers[r]) : pc[workers[r][i]] = "done"
    /\ (pc[r] \in {"rb_finally", "after", "stop", "done"} /\ Calls(r, "start") = workers[r])
         => Calls(r, "join") = workers[r]

\* C8 witness: the root returned after joining both handles although the
\* run() of its first child ended by an error
C8_Witness ==
  /\ outcome[Root] = "returned"
  /\ outcome["B"] = "raised"
  /\ Calls(Root, "join") = <<"B", "C">>

C10_EdgeTriggeredPause ==
  \A w \in Observed :
    is_waiting_event[w] # None =>
      /\ (lastBody[w].body # None /\ lastBody[w].stable) =>
           lastBody[w].body = IF lastBody[w].began THEN "wait" ELSE "work"
      /\ nBecameInactive[w] <= 1
      /\ nBecameActive[w] <= 1
      /\ (lastBody[w].body = "wait" /\ lastBody[w].stable /\ lastBody[w].began
            /\ stateAtChange[w] = "ACTIVE") => nBecameInactive[w] = 1
      /\ (lastBody[w].body = "work" /\ lastBody[w].stable /\ ~lastBody[w].began
            /\ stateAtChange[w] = "WAITING") => nBecameActive[w] = 1

\* C10 witness: the worker was ACTIVE in its loop when P was set; an iteration
\* begun after that called _wait_in_loop and _became_inactive has fired once
C10_Witness ==
  /\ is_waiting_event["B"] = "P" /\ ev["P"]
  /\ stateAtChange["B"] = "ACTIVE"
  /\ lastBody["B"] = [body |-> "wait", began |-> TRUE, stable |-> TRUE]
  /\ nBecameInactive["B"] = 1

\* C11: an error raised by _work_in_loop is caught inside the iteration: right
\* after it the worker is at the stop check of the next iteration (from where
\* it re-reads the pause state), and run() has not ended with an error.
C11_WorkErrorKeepsLooping ==
  \A w \in Loops :
    loopErr[w] = "work" => pc[w] = "check" /\ outcome[w] = "none"

C11_Witness ==
  /\ loopErr["B"] = "work"
  /\ pc["B"] = "check"
  /\ ~is_stopped("B")

\* C12 (as claimed): an error raised by _wait_in_loop is recovered like one of
\* _work_in_loop: right after it the worker is at the stop check of the next
\* iteration.
C12_WaitErrorKeepsLooping ==
  \A w \in Loops : loopErr[w] = "wait" => pc[w] \in InLoop

\* The pause event of w has not changed since w entered its loop: the edge
\* hooks counted for w are those of its startup
StartupOnly(w) == stateAtChange[w] = None

\* C28: when a loop worker makes a loop-body call and its pause event has not
\* changed since its loop began, at most one edge hook has fired, and it is
\* the hook of the state the call runs in: _became_active once and
\* _became_inactive never when the worker is ACTIVE, no hook at all when it
\* is WAITING.
C28_OneStartupTransition ==
  \A w \in Observed :
    (pc[w] = "body" /\ StartupOnly(w)) =>
      /\ nBecameActive[w] + nBecameInactive[w] <= 1
      /\ nBecameActive[w] = (IF is_active[w] THEN 1 ELSE 0)
      /\ nBecameInactive[w] = 0

\* C29: when the loop of a loop worker is over, the stop request of the
\* finally clause has been made (it took effect or it raised) before
\* _after_body is called; _after_body has run by the time run() ends, also
\* when the stop request raised; and run() ends by an error only when
\* _after_body itself raised, never by an error of the loop phase.
C29_StopThenAfterBody ==
  \A w \in Loops :
    /\ pc[w] \in {"after", "done"} => (is_stopped(w) \/ "stop" \in runErr[w])
    /\ pc[w] = "done" => Count(hooks[w], "after") = 1
    /\ (w \in Observed /\ outcome[w] = "raised") => "after" \in runErr[w]

\* C29 witness: the loop of B ended by an error of _wait_in_loop, the stop
\* request raised, _after_body ran and run() returned
C29_Witness ==
  /\ pc["B"] = "done"
  /\ loopErr["B"] = "wait"
  /\ "stop" \in runErr["B"]
  /\ Count(hooks["B"], "after") = 1
  /\ outcome["B"] = "returned"

\* The start() of one of the runner's tasks has raised and _run_body is over
StartFailed(r) ==
  /\ pc[r] \in {"after", "stop", "done"}
  /\ Count(hooks[r], "run") = 1
  /\ Len(Calls(r, "start")) < Len(workers[r])

\* C30: when the start of a child has raised, the runner has requested stop
\* and, by the time its run() has ended, has joined every child it had started.
C30_StartFailureStillJoins ==
  \A r \in Runners :
    StartFailed(r) =>
      /\ is_stopped(r)
      /\ pc[r] = "done" => Calls(r, "join") = Calls(r, "start")

-----------------------------------------------------------------------------
(* SpecFair: the run of a tree whose workers all share the root's stop     *)
(* event, under a scheduler that lets every process and thread take its    *)
(* next step, with a main program that calls run() of the root             *)

InitShared == Init /\ ctorStop[Root] # None

SpecFair ==
  /\ InitShared
  /\ [][Next]_vars
  /\ WF_vars(RunRoot)
  /\ \A w \in Workers : WF_vars(Step(w))

\* Every worker holds the stop event of the root
AllShare == \A w \in Workers : stop_event[w] # None /\ stop_event[w] = stop_event[Root]

\* C6: in a tree whose workers all share the root's stop event, once stop is
\* requested every loop worker, ACTIVE or WAITING, eventually is out of its
\* loop and run() of the root eventually has ended.
C6_CooperativeStop ==
  (AllShare /\ ev[stop_event[Root]])
    ~> ((\A w \in Loops : pc[w] \notin InLoop) /\ pc[Root] = "done")

\* C6 witness: stop was requested while D was WAITING in its loop and B was
\* ACTIVE; both have left their loops and run() of the root has returned
C6_Witness ==
  /\ AllShare /\ ev[stop_event[Root]]
  /\ outcome[Root] = "returned"
  /\ pc["B"] = "done" /\ is_active["B"]
  /\ pc["D"] = "done" /\ ~is_active["D"] /\ ev["E0"]

-----------------------------------------------------------------------------
(* SpecPause: calls of LoopProcessor.change_activity_state on the loop      *)
(* workers B and D as their constructors leave them (no runner built yet),  *)
(* each call made in the caller's own thread or process                     *)

\* change_activity_state calls begun in one behaviour
MaxToggleCalls == 4

\* Everything a change_activity_state call leaves alone besides the object state
exceptPause == <<wireHist, runVars, loopHist, mailVars, fmtVars, drainVars, shutVars, termVars, actVars, hookVars, failVars>>

\* B = LoopProcessor(is_waiting_event=weB, start_active=saB), D likewise
InitPause ==
  \E weB \in {None, "P"} : \E weD \in {None, "P", "P2"} : \E saB \in BOOLEAN : \E saD \in BOOLEAN :
    /\ constructed = [w \in Workers |-> w \in Loops]
    /\ termHandler = "D"
    /\ sigHandler = "D"
    /\ stop_event = [w \in Workers |-> None]
    /\ stop_me_if_event_is_not_defined = [w \in Workers |-> FALSE]
    /\ is_waiting_event = [w \in Workers |-> IF w = "B" THEN weB ELSE IF w = "D" THEN weD ELSE None]
    /\ start_active = [w \in Workers |-> IF w = "B" THEN saB ELSE IF w = "D" THEN saD ELSE TRUE]
    /\ is_waiting_if_waiting_event_is_not_defined =
         [w \in Workers |-> w \in Loops /\ ~start_active[w]]
    /\ is_active = [w \in Workers |-> TRUE]
    /\ ev = [e \in Events |-> FALSE]
    /\ ctorStop = [w \in Workers |-> None]
    /\ ctorWait = is_waiting_event
    /\ firstStop = [w \in Workers |-> None]
    /\ lastAttach = NoAttach
    /\ nAttach = 0
    /\ preWire = NoWire
    /\ stopCalled = FALSE
    /\ RunIdle
    /\ ExtIdle

\* A change_activity_state that only ever asks for a pause
always_set(isset) == TRUE

\* LoopProcessor.change_activity_state: the state the call gives the pause
\* event (or the private flag) from the state it has read: set -> clear,
\* clear -> set
toggled(isset) == ~isset

\* No other worker is inside change_activity_state
OthersIdle(w) == \A v \in Loops \ {w} : cas[v] = "idle"

\* The record of non-overlapping calls when a call of w begins
ChainAtBegin(w) ==
  IF ~OthersIdle(w)
    THEN [NoChain EXCEPT !.n = -1]
    ELSE IF chain.n = 1
           THEN chain
           ELSE [n |-> 0, by |-> <<>>, ev |-> ev,
                 priv |-> is_waiting_if_waiting_event_is_not_defined]

\* The record of non-overlapping calls when a call of w returns
ChainAtEnd(c, w) ==
  IF c.n = -1 THEN c ELSE [c EXCEPT !.n = @ + 1, !.by = Append(@, w)]

\* change_activity_state, up to the test of is_set(); without a pause event
\* the whole call: the private flag is negated
ChangeBegin(w) ==
  /\ w \in Loops
  /\ constructed[w]
  /\ cas[w] = "idle"
  /\ nCalls < MaxToggleCalls
  /\ nCalls' = nCalls + 1
  /\ IF is_waiting_event[w] # None
       THEN /\ cas' = [cas EXCEPT ![w] = IF toggled(ev[is_waiting_event[w]]) THEN "set" ELSE "clear"]
            /\ chain' = ChainAtBegin(w)
            /\ UNCHANGED is_waiting_if_waiting_event_is_not_defined
       ELSE /\ is_waiting_if_waiting_event_is_not_defined' =
                 [is_waiting_if_waiting_event_is_not_defined EXCEPT ![w] = toggled(@)]
            /\ chain' = ChainAtEnd(ChainAtBegin(w), w)
            /\ UNCHANGED cas
  /\ UNCHANGED <<constructed, stop_event, stop_me_if_event_is_not_defined, is_waiting_event,
                 start_active, is_active, ev, exceptPause>>

\* change_activity_state: the set() or clear() chosen by the test
ChangeEnd(w) ==
  /\ w \in Loops
  /\ cas[w] # "idle"
  /\ ev' = [ev EXCEPT ![is_waiting_event[w]] = (cas[w] = "set")]
  /\ cas' = [cas EXCEPT ![w] = "idle"]
  /\ chain' = ChainAtEnd(chain, w)
  /\ UNCHANGED <<constructed, stop_event, stop_me_if_event_is_not_defined, is_waiting_event,
                 is_waiting_if_waiting_event_is_not_defined, start_active, is_active,
                 nCalls, exceptPause>>

NextPause ==
  \/ \E w \in Loops : ChangeBegin(w)
  \/ \E w \in Loops : ChangeEnd(w)

SpecPause == InitPause /\ [][NextPause]_vars

\* What a call of w toggles: its pause event, or the worker's own flag
Target(w) == IF is_waiting_event[w] # None THEN is_waiting_event[w] ELSE w

\* The events and private flags after one toggle of w's target
Flip(snap, w) ==
  IF is_waiting_event[w] # None
    THEN [snap EXCEPT !.ev[is_waiting_event[w]] = ~@]
    ELSE [snap EXCEPT !.priv[w] = ~@]

\* The desired activity of v when the events and flags are as in snap
DesiredIn(snap, v) ==
  IF is_waiting_event[v] = None THEN ~snap.priv[v] ELSE ~snap.ev[is_waiting_event[v]]

\* C13: after one call of change_activity_state that overlaps no other call,
\* the caller's pause event is flipped when it has one (and nothing else
\* changes), otherwise only the caller's private flag is flipped; every worker
\* sharing the caller's pause event has its desired activity changed; and after
\* two such calls in a row on the same target everything is as before the first.
C13_ToggleAndRestore ==
  LET origin == [ev |-> chain.ev, priv |-> chain.priv]
      now    == [ev |-> ev, priv |-> is_waiting_if_waiting_event_is_not_defined]
  IN  /\ chain.n = 1 =>
           /\ now = Flip(origin, chain.by[1])
           /\ \A v \in Loops :
                Target(v) = Target(chain.by[1]) =>
                  new_activity_state(v) = ~DesiredIn(origin, v)
      /\ chain.n = 2 =>
           /\ now = Flip(Flip(origin, chain.by[1]), chain.by[2])
           /\ Target(chain.by[1]) = Target(chain.by[2]) => now = origin

C13_Witness ==
  /\ is_waiting_event["B"] = "P" /\ is_waiting_event["D"] = "P"
  /\ chain.n = 2 /\ chain.by = <<"B", "D">>
  /\ chain.ev["P"] /\ ev["P"]

\* C35: when the runners A and C were both constructed without an
\* is_waiting_event argument, they do not hold the same pause event, and
\* flipping the pause event C handed to its loop worker D leaves the desired
\* activity of B, the loop worker of A, as it is.
C35_DefaultPauseTokensNotShared ==
  (constructed["A"] /\ constructed["C"] /\ ctorWait["A"] = Omitted /\ ctorWait["C"] = Omitted) =>
    LET tok     == is_waiting_event["C"]
        flipped == [ev |-> [ev EXCEPT ![tok] = ~@],
                    priv |-> is_waiting_if_waiting_event_is_not_defined]
    IN  /\ is_waiting_event["A"] # tok
        /\ is_waiting_event["D"] = tok =>
              DesiredIn(flipped, "B") = new_activity_state("B")

-----------------------------------------------------------------------------
(* SpecMail: the user-signal mailbox of signals/multiproc_user_signals.py. *)
(* One receiving process hosts UserSignalConsumerProcessors, one producer  *)
(* process calls send_user_signal; besides the producer anybody may raise  *)
(* SIGUSR1 on the receiver (it is also SignalsEnum.ACTIVATE).              *)

\* The ids the producer sends
MailIds == {1, 2}
\* Depth of nested on_common_signal invocations (a signal handler can be
\* interrupted by the next signal)
MaxNest == 2
\* SIGUSR1 deliveries not made by send_user_signal
MaxSpurious == 1

\* Everything the mailbox operations leave alone
exceptMail == <<objVars, wireHist, runVars, loopHist, pauseVars, fmtVars, drainVars, shutVars, termVars, actVars, hookVars, failVars>>

\* Nothing is constructed yet
InitMail == InitWire

\* The frame of the handler invocation that is running
Top == frames[Len(frames)]
Pop == SubSeq(frames, 1, Len(frames) - 1)
SetTop(f) == [frames EXCEPT ![Len(frames)] = f]

\* Producer idle, no signal pending, no handler running
Quiet == snd.pc = "idle" /\ ~sigPending /\ frames = <<>>

\* UserSignalConsumerProcessor.__init__ for context c in the receiving process:
\* Processor.__init__ calls register_signals(), which calls
\* signal.signal(SIGUSR1, self.on_common_signal)
NewUserSignalConsumer(c) ==
  /\ \A i \in 1..Len(consumers) : consumers[i] # c
  /\ Quiet /\ sent = <<>> /\ nSpurious = 0
  /\ consumers' = Append(consumers, c)
  /\ sigHandler' = c
  /\ UNCHANGED <<file, data, lock, nIno, snd, sent, sigPending, frames, dispatched, seqOK,
                 lww, nSpurious, handlerErr, lastRecv, exceptMail>>

\* SignalContext.set_signal_id: open(self._filename, 'wb') creates the file
\* or truncates it; no lock is taken
SendOpen(c, id) ==
  /\ consumers # <<>>
  /\ snd.pc = "idle"
  /\ Len(sent) < MaxSends
  /\ LET k    == Len(sent) + 1
         ino  == IF file[c] = 0 THEN nIno + 1 ELSE file[c]
         prev == /\ k > 1 /\ sent[k - 1].ctx = c
                 /\ file[c] # 0 /\ data[file[c]] = k - 1
                 /\ \A j \in 1..Len(frames) : frames[j].val # k - 1
     IN  /\ sent' = Append(sent, [ctx |-> c, id |-> id])
         /\ file' = [file EXCEPT ![c] = ino]
         /\ nIno' = IF file[c] = 0 THEN nIno + 1 ELSE nIno
         /\ data' = [data EXCEPT ![ino] = 0]
         /\ snd' = [pc |-> "opened", ctx |-> c, ino |-> ino, k |-> k]
         /\ lww' = IF prev THEN k ELSE lww
  /\ seqOK' = (seqOK /\ ~sigPending /\ frames = <<>>)
  /\ UNCHANGED <<consumers, sigHandler, lock, sigPending, frames, dispatched, nSpurious,
                 handlerErr, lastRecv, exceptMail>>

\* SignalContext.set_signal_id: f.write(struct.pack(...)) and the end of the
\* with block, which flushes the packed id to the file that was opened
SendWrite ==
  /\ snd.pc = "opened"
  /\ data' = [data EXCEPT ![snd.ino] = snd.k]
  /\ snd' = [snd EXCEPT !.pc = "kill"]
  /\ UNCHANGED <<consumers, sigHandler, file, lock, nIno, sent, sigPending, frames,
                 dispatched, seqOK, lww, nSpurious, handlerErr, lastRecv, exceptMail>>

\* SignalContext.send_user_signal: os.kill(pid, self.COMMON_SIGNAL)
SendKill ==
  /\ snd.pc = "kill"
  /\ sigPending' = TRUE
  /\ snd' = SndIdle
  /\ UNCHANGED <<consumers, sigHandler, file, data, lock, nIno, sent, frames, dispatched,
                 seqOK, lww, nSpurious, handlerErr, lastRecv, exceptMail>>

\* os.kill(pid, SIGUSR1) by anybody else (UserSignalProducer.send_standard_signal,
\* a shell)
SpuriousDoorbell ==
  /\ consumers # <<>>
  /\ nSpurious < MaxSpurious
  /\ nSpurious' = nSpurious + 1
  /\ sigPending' = TRUE
  /\ UNCHANGED <<consumers, sigHandler, file, data, lock, nIno, snd, sent, frames,
                 dispatched, seqOK, lww, handlerErr, lastRecv, exceptMail>>

\* The receiving process starts running its Python handler for a pending
\* SIGUSR1 (pending signals of one number are not queued: they are one)
HandlerEnter ==
  /\ sigPending
  /\ Len(frames) < MaxNest
  /\ sigPending' = FALSE
  /\ frames' = Append(frames, [ctx |-> sigHandler, pc |-> "open", ino |-> 0, val |-> 0])
  /\ seqOK' = (seqOK /\ snd.pc = "idle")
  /\ UNCHANGED <<consumers, sigHandler, file, data, lock, nIno, snd, sent, dispatched, lww,
                 nSpurious, handlerErr, lastRecv, exceptMail>>

\* A get_signal without "finally: return ret_val": the FileNotFoundError of
\* open() leaves the handler
missing_raises == "error"

\* SignalContext.get_signal when open() finds no file: the outer
\* "finally: return ret_val" swallows the error and returns None
on_missing == "none"

\* An on_common_signal that calls on_user_signal whatever get_signal returned
dispatches_always(val) == TRUE

\* UserSignalConsumerProcessor.on_common_signal: "if user_signal is not None"
\* (val 0 stands for None)
dispatches(val) == val # 0

\* The on_user_signal call made for the value val by the consumer of context c
Callback(c, val) == [to |-> c, k |-> val, id |-> IF val = 0 THEN 0 ELSE sent[val].id]

\* SignalContext.get_signal: open(self._filename, 'r+b'); when there is no
\* file, the rest of on_common_signal as well
RecvOpen ==
  /\ frames # <<>>
  /\ Top.pc = "open"
  /\ IF file[Top.ctx] = 0
       THEN /\ frames' = Pop
            /\ IF on_missing = "none"
                 THEN /\ lastRecv' = "missing"
                      /\ dispatched' = IF dispatches(0)
                                         THEN Append(dispatched, Callback(Top.ctx, 0))
                                         ELSE dispatched
                      /\ UNCHANGED handlerErr
                 ELSE /\ lastRecv' = "error"
                      /\ handlerErr' = TRUE
                      /\ UNCHANGED dispatched
       ELSE /\ frames' = SetTop([Top EXCEPT !.pc = "lock", !.ino = file[Top.ctx]])
            /\ UNCHANGED <<lastRecv, dispatched, handlerErr>>
  /\ UNCHANGED <<consumers, sigHandler, file, data, lock, nIno, snd, sent, sigPending,
                 seqOK, lww, nSpurious, exceptMail>>

\* SignalContext.get_signal: fcntl.flock(f, LOCK_EX), which waits while another
\* open file description holds the lock of the inode
RecvLock ==
  /\ frames # <<>>
  /\ Top.pc = "lock"
  /\ lock[Top.ino] = 0
  /\ lock' = [lock EXCEPT ![Top.ino] = Len(frames)]
  /\ frames' = SetTop([Top EXCEPT !.pc = "read"])
  /\ UNCHANGED <<consumers, sigHandler, file, data, nIno, snd, sent, sigPending, dispatched,
                 seqOK, lww, nSpurious, handlerErr, lastRecv, exceptMail>>

\* SignalContext.get_signal: data = f.read()
RecvRead ==
  /\ frames # <<>>
  /\ Top.pc = "read"
  /\ frames' = SetTop([Top EXCEPT !.pc = "remove", !.val = data[Top.ino]])
  /\ UNCHANGED <<consumers, sigHandler, file, data, lock, nIno, snd, sent, sigPending,
                 dispatched, seqOK, lww, nSpurious, handlerErr, lastRecv, exceptMail>>

\* An os.remove that leaves the path in place
kept(ino) == ino

\* os.remove(self._filename): what the path names afterwards
removed(ino) == 0

\* SignalContext.get_signal: os.remove(self._filename), then
\* struct.unpack(self._struct_format, data)[0].  os.remove raises when the path
\* is gone, struct.unpack when data is empty; either way ret_val stays None.
RecvRemove ==
  /\ frames # <<>>
  /\ Top.pc = "remove"
  /\ IF file[Top.ctx] = 0
       THEN /\ frames' = SetTop([Top EXCEPT !.pc = "unlock", !.val = 0])
            /\ UNCHANGED file
       ELSE /\ file' = [file EXCEPT ![Top.ctx] = removed(@)]
            /\ frames' = SetTop([Top EXCEPT !.pc = "unlock"])
  /\ UNCHANGED <<consumers, sigHandler, data, lock, nIno, snd, sent, sigPending, dispatched,
                 seqOK, lww, nSpurious, handlerErr, lastRecv, exceptMail>>

\* SignalContext.get_signal: finally: fcntl.flock(f, LOCK_UN); the file is
\* closed; finally: return ret_val
RecvUnlock ==
  /\ frames # <<>>
  /\ Top.pc = "unlock"
  /\ lock' = [lock EXCEPT ![Top.ino] = 0]
  /\ frames' = SetTop([Top EXCEPT !.pc = "dispatch"])
  /\ lastRecv' = IF Top.val = 0 THEN "empty" ELSE "value"
  /\ UNCHANGED <<consumers, sigHandler, file, data, nIno, snd, sent, sigPending, dispatched,
                 seqOK, lww, nSpurious, handlerErr, exceptMail>>

\* UserSignalConsumerProcessor.on_common_signal: if user_signal is not None:
\* self.on_user_signal(user_signal, ...); the handler returns
RecvDispatch ==
  /\ frames # <<>>
  /\ Top.pc = "dispatch"
  /\ dispatched' = IF dispatches(Top.val)
                     THEN Append(dispatched, Callback(Top.ctx, Top.val))
                     ELSE dispatched
  /\ frames' = Pop
  /\ UNCHANGED <<consumers, sigHandler, file, data, lock, nIno, snd, sent, sigPending,
                 seqOK, lww, nSpurious, handlerErr, lastRecv, exceptMail>>

NextMail ==
  \/ \E c \in Contexts : NewUserSignalConsumer(c)
  \/ \E c \in Contexts : \E id \in MailIds : SendOpen(c, id)
  \/ SendWrite
  \/ SendKill
  \/ SpuriousDoorbell
  \/ HandlerEnter
  \/ RecvOpen
  \/ RecvLock
  \/ RecvRead
  \/ RecvRemove
  \/ RecvUnlock
  \/ RecvDispatch

SpecMail == InitMail /\ [][NextMail]_vars

\* The on_user_signal call the k-th send_user_signal is meant to cause
Expected(k) == [to |-> sent[k].ctx, k |-> k, id |-> sent[k].id]

\* C14: when the sends go to the context of the registered consumer and no
\* send overlaps a handler invocation or a pending doorbell, the callbacks are
\* those of the sends, in send order, one per send, each with the id sent;
\* at most the callback of the last send is still to come, and none is once
\* the producer is idle and no doorbell is pending or being handled.
C14_MailboxRoundTrip ==
  (seqOK /\ \A i \in 1..Len(sent) : sent[i].ctx = sigHandler) =>
    /\ Len(dispatched) <= Len(sent)
    /\ Len(sent) - Len(dispatched) <= 1
    /\ \A i \in 1..Len(dispatched) : dispatched[i] = Expected(i)
    /\ Quiet => Len(dispatched) = Len(sent)

C14_Witness ==
  /\ seqOK /\ Quiet
  /\ sent = <<[ctx |-> "X", id |-> 1], [ctx |-> "X", id |-> 2]>>
  /\ dispatched = <<Expected(1), Expected(2)>>

\* C15 (as claimed): when a send on the context of the registered consumer
\* began while the value of the previous send on it was still unread in the
\* mailbox, then, once the producer is idle and no doorbell is pending or being
\* handled, the later id has been dispatched and the earlier one has not.
C15_LastWriteWins ==
  (lww # 0 /\ Len(sent) = lww /\ Quiet /\ nSpurious = 0 /\ sigHandler = sent[lww].ctx) =>
    /\ \E i \in 1..Len(dispatched) : dispatched[i].k = lww
    /\ \A i \in 1..Len(dispatched) : dispatched[i].k # lww - 1

\* C16 (as claimed): every callback carries a value some completed send wrote
\* and no written value is dispatched twice, so that a handler invocation
\* without a new write since the last consume dispatches nothing.
C16_OneShotConsume ==
  /\ \A i \in 1..Len(dispatched) :
       /\ dispatched[i].k \in 1..Len(sent)
       /\ dispatched[i].k = Len(sent) => snd.pc # "opened"
       /\ dispatched[i].id = sent[dispatched[i].k].id
  /\ \A i \in 1..Len(dispatched) : \A j \in 1..Len(dispatched) :
       i # j => dispatched[i].k # dispatched[j].k

\* C17: a handler invocation whose open() finds no mailbox file returns with
\* no callback made, no error raised and the mailbox files, their contents
\* and their locks as they were.
C17_MissingMailboxIsNoSignal ==
  [][(frames # <<>> /\ Top.pc = "open" /\ file[Top.ctx] = 0 /\ Len(frames') < Len(frames)) =>
       /\ lastRecv' = "missing"
       /\ dispatched' = dispatched
       /\ ~handlerErr'
       /\ file' = file /\ data' = data /\ lock' = lock]_vars

C17_Witness ==
  /\ lastRecv = "missing"
  /\ sent = <<>> /\ nSpurious = 1
  /\ dispatched = <<>> /\ ~handlerErr
  /\ Quiet

\* C18 (as claimed): in a process that hosts the consumers of two contexts,
\* every id sent on a context (no send overlapping a handler invocation) has
\* been dispatched to the consumer of that context once all is quiet, and no
\* callback goes to the consumer of another context.
C18_IndependentContexts ==
  (Len(consumers) = 2 /\ seqOK /\ Quiet) =>
    /\ \A i \in 1..Len(sent) : \E j \in 1..Len(dispatched) : dispatched[j] = Expected(i)
    /\ \A j \in 1..Len(dispatched) : dispatched[j].to = sent[dispatched[j].k].ctx

\* The handler frames that are between flock(LOCK_EX) and flock(LOCK_UN)
InReadDelete(j) == frames[j].pc \in {"read", "remove", "unlock"}

\* C25: the write of send_user_signal and the read-delete of get_signal
\* exclude each other: while the sender is between opening (truncating) the
\* mailbox and having written it, no handler is in its read-delete section on
\* that file, and no handler has read the file empty.
C25_WriteExcludesReadDelete ==
  /\ snd.pc = "opened" =>
       \A j \in 1..Len(frames) : ~(InReadDelete(j) /\ frames[j].ino = snd.ino)
  /\ \A j \in 1..Len(frames) : frames[j].pc = "remove" => frames[j].val # 0

\* C26: os.kill of send_user_signal is made when the id is in the file the
\* sender opened; and on_user_signal is called when the handler has read the
\* file, removed its path and released its lock.
C26_WriteThenSignalThenDispatch ==
  [][/\ (snd.pc = "kill" /\ snd'.pc = "idle") => data[snd.ino] = snd.k
     /\ dispatched' # dispatched =>
          /\ frames # <<>>
          /\ Top.pc = "dispatch"
          /\ file[Top.ctx] # Top.ino
          /\ lock[Top.ino] # Len(frames)]_vars

\* a send_user_signal has rung the doorbell and its id has been dispatched
C26_Witness ==
  /\ dispatched # <<>>
  /\ snd.pc = "idle"
  /\ frames = <<>>
  /\ dispatched[Len(dispatched)] = Expected(dispatched[Len(dispatched)].k)

\* C34: no invocation of the doorbell handler waits for the mailbox lock
\* while the lock is held by an invocation it has interrupted (which cannot
\* go on, and so cannot unlock, before the waiting one returns).
C34_NoSelfDeadlock ==
  \A j \in 1..Len(frames) :
    (frames[j].pc = "lock" /\ lock[frames[j].ino] # 0) => lock[frames[j].ino] > j

-----------------------------------------------------------------------------
(* SpecFormat: the fixed-width encoding of an id.  SignalContext.__init__  *)
(* picks the struct format from len(signals); set_signal_id packs an id    *)
(* with it and get_signal unpacks the bytes.                               *)

\* The member counts and the explicit largest ids of the enumerations tried
EnumLens == {1, 2, 3, 4, 100, 255, 256, 257, 1000, 65535, 65536}
EnumMaxIds == {300, 70000}

\* An enumeration by its number of members and its largest id: with auto()
\* the ids are 1..len, with explicit values the largest id is what it is
Enumerations ==
  {[len |-> n, max |-> n] : n \in EnumLens} \cup
  {e \in [len : EnumLens, max : EnumMaxIds] : e.max > e.len}

\* Ids that are certainly members of the enumeration
EnumIds(e) == IF e.max = e.len THEN {1, e.max} ELSE {e.max}
\* All the ids tried
TriedIds == {1} \cup EnumLens \cup EnumMaxIds

exceptFmt == <<objVars, wireHist, runVars, loopHist, pauseVars, mailVars, drainVars, shutVars, termVars, actVars, hookVars, failVars>>

\* A SignalContext is about to be built for one of the enumerations
InitFormat ==
  /\ NothingBuilt /\ PauseIdle /\ MailIdle /\ DrainIdle /\ ShutIdle /\ TermIdle /\ ActIdle /\ HookIdle /\ FailIdle
  /\ fEnum \in Enumerations
  /\ fFormat = None
  /\ fId = 0
  /\ fPacked = <<>>
  /\ fErr = FALSE
  /\ fBack = -1

\* math.ceil(math.log2(m)) for m >= 1: the least b with 2^b >= m
RECURSIVE CeilLog2From(_, _, _)
CeilLog2From(m, b, p) == IF p >= m THEN b ELSE CeilLog2From(m, b + 1, 2 * p)
CeilLog2(m) == CeilLog2From(m, 0, 1)

\* SignalContext.get_struct_format
get_struct_format(range_max) ==
  IF range_max < 0
    THEN "ValueError"
    ELSE LET num_bits == CeilLog2(range_max + 1)
         IN  IF num_bits <= 8 THEN "B"
             ELSE IF num_bits <= 16 THEN "H"
             ELSE IF num_bits <= 32 THEN "I"
             ELSE IF num_bits <= 64 THEN "Q"
             ELSE "ValueError"

\* struct: the size in bytes of the standard unsigned formats
StructSize(fmt) == CASE fmt = "B" -> 1 [] fmt = "H" -> 2 [] fmt = "I" -> 4 [] fmt = "Q" -> 8

\* The ids of the model stay below 2^31, so they fit 4 and 8 bytes
StructFits(fmt, v) ==
  /\ v >= 0
  /\ StructSize(fmt) = 1 => v < 256
  /\ StructSize(fmt) = 2 => v < 65536

\* The n low bytes of v, least significant first
RECURSIVE LowBytes(_, _)
LowBytes(v, n) == IF n = 0 THEN <<>> ELSE <<v % 256>> \o LowBytes(v \div 256, n - 1)

\* The number a byte string stands for, least significant byte first
RECURSIVE FromBytes(_)
FromBytes(bs) == IF bs = <<>> THEN 0 ELSE Head(bs) + 256 * FromBytes(Tail(bs))

\* SignalContext.__init__: range_max = len(signals);
\* self._struct_format = self.get_struct_format(range_max)
NewSignalContext ==
  /\ fFormat = None
  /\ fFormat' = get_struct_format(fEnum.len)
  /\ UNCHANGED <<fEnum, fId, fPacked, fErr, fBack, exceptFmt>>

\* SignalContext.set_signal_id(id): f.write(struct.pack(self._struct_format, id))
SetSignalId(id) ==
  /\ id \in EnumIds(fEnum)
  /\ fFormat \in {"B", "H", "I", "Q"}
  /\ fId = 0
  /\ fId' = id
  /\ IF StructFits(fFormat, id)
       THEN /\ fPacked' = LowBytes(id, StructSize(fFormat))
            /\ UNCHANGED fErr
       ELSE /\ fErr' = TRUE
            /\ UNCHANGED fPacked
  /\ UNCHANGED <<fEnum, fFormat, fBack, exceptFmt>>

\* SignalContext.get_signal: struct.unpack(self._struct_format, data)[0] of
\* the bytes set_signal_id wrote
GetSignal ==
  /\ fPacked # <<>>
  /\ fBack = -1
  /\ Len(fPacked) = StructSize(fFormat)
  /\ fBack' = FromBytes(fPacked)
  /\ UNCHANGED <<fEnum, fFormat, fId, fPacked, fErr, exceptFmt>>

NextFormat ==
  \/ NewSignalContext
  \/ \E id \in TriedIds : SetSignalId(id)
  \/ GetSignal

SpecFormat == InitFormat /\ [][NextFormat]_vars

\* The least of 8, 16, 32, 64 bits that holds m (the ids here stay below 2^31)
SmallestWidth(m) == IF m < 256 THEN 8 ELSE IF m < 65536 THEN 16 ELSE 32

\* C19 (as claimed): the format chosen for an enumeration has the least of the
\* widths 8/16/32/64 that holds the largest id of the enumeration; packing an
\* id of the enumeration never fails, and unpacking gives the id back.
C19_WidthCoversLargestId ==
  /\ fFormat # None => 8 * StructSize(fFormat) = SmallestWidth(fEnum.max)
  /\ ~fErr
  /\ fBack # -1 => fBack = fId

\* C24: a SignalContext that was constructed without an error can pack every
\* id of its enumeration: no set_signal_id fails on it because of the size of
\* the id (an enumeration with an id too large is rejected by the constructor).
C24_OversizeRejectedAtSetup ==
  fFormat \in {"B", "H", "I", "Q"} =>
    /\ \A id \in EnumIds(fEnum) : StructFits(fFormat, id)
    /\ fId # 0 => ~fErr

-----------------------------------------------------------------------------
(* SpecDrain: LogQueueStreamProcessor, the worker that drains the log      *)
(* queue, with a clock.  One tick is 5 ms.  The worker's own statements    *)
(* take no time; time passes while it is blocked in queue.get or in sleep. *)

\* LogQueueStreamProcessor.__init__: timeout = 0.005 s
PollTimeout == 1
\* LogQueueStreamProcessor.__init__: wait_after_life_for_a_message = 0.1 s
Grace == 20
\* LoopProcessor._wait_in_loop: sleep(0.01)
WaitSleep == 2
\* The clock stops here
MaxTime == 26
\* Records put on the queue in one behaviour
MaxArrivals == 2
\* set()/clear() calls on the worker's pause event in one behaviour
MaxPauseFlips == 1

exceptDrain == <<objVars, wireHist, runVars, loopHist, pauseVars, mailVars, fmtVars, shutVars, termVars, actVars, hookVars, failVars>>

InitDrain == InitWire

\* An Empty branch that does not look at the time since the last message
grace_ignored(from_last_send_time) == TRUE

\* LogQueueStreamProcessor._work_in_loop: "if from_last_send_time > self._sleep_after_s"
grace_elapsed(from_last_send_time) == from_last_send_time > Grace

\* An Empty branch that does not ask whether the stop request was observed
finished_without_stop(near, from_last_send_time) == grace_elapsed(from_last_send_time)

\* LogQueueStreamProcessor._work_in_loop, except Empty: "if self._near_to_stop:"
\* and inside it the test of the time since the last message
finished_on_empty(near, from_last_send_time) == near /\ grace_elapsed(from_last_send_time)

\* The worker is blocked in a call that lets time pass
Blocked ==
  \/ dPc \in {"idle", "done"}
  \/ dPc = "poll" /\ logQueue = <<>> /\ dNow < dSince + PollTimeout
  \/ dPc = "wait" /\ dNow < dSince + WaitSleep

\* 5 ms pass
Tick ==
  /\ dNow < MaxTime
  /\ Blocked
  /\ dNow' = dNow + 1
  /\ UNCHANGED <<dPc, logQueue, dStop, dPause, near_to_stop, really_stop, last_msg_send_time,
                 dSince, nArrivals, dLastIn, nPauseFlips, dObservedAt, dLastDrain, dDeclared,
                 dExitAt, dWaited, logFile,
                 exceptDrain>>

\* A worker logs: QueueHandler puts a record on the queue
Arrive ==
  /\ nArrivals < MaxArrivals
  /\ nArrivals' = nArrivals + 1
  /\ logQueue' = Append(logQueue, "record")
  /\ dLastIn' = dNow
  /\ UNCHANGED <<dPc, dStop, dPause, near_to_stop, really_stop, last_msg_send_time, dNow,
                 dSince, nPauseFlips, dObservedAt, dLastDrain, dDeclared, dExitAt, dWaited,
                 logFile,
                 exceptDrain>>

\* Somebody sets the stop event the worker shares
RequestStop ==
  /\ ~dStop
  /\ dStop' = TRUE
  /\ UNCHANGED <<dPc, logQueue, dPause, near_to_stop, really_stop, last_msg_send_time, dNow,
                 dSince, nArrivals, dLastIn, nPauseFlips, dObservedAt, dLastDrain, dDeclared,
                 dExitAt, dWaited, logFile,
                 exceptDrain>>

\* Somebody sets or clears the pause event the worker got from its runner
PauseFlip ==
  /\ nPauseFlips < MaxPauseFlips
  /\ nPauseFlips' = nPauseFlips + 1
  /\ dPause' = ~dPause
  /\ UNCHANGED <<dPc, logQueue, dStop, near_to_stop, really_stop, last_msg_send_time, dNow,
                 dSince, nArrivals, dLastIn, dObservedAt, dLastDrain, dDeclared, dExitAt,
                 dWaited, logFile,
                 exceptDrain>>

\* LoopProcessor.run up to the while loop
DrainRun ==
  /\ dPc = "idle"
  /\ dPc' = "check"
  /\ UNCHANGED <<logQueue, dStop, dPause, near_to_stop, really_stop, last_msg_send_time, dNow,
                 dSince, nArrivals, dLastIn, nPauseFlips, dObservedAt, dLastDrain, dDeclared,
                 dExitAt, dWaited, logFile,
                 exceptDrain>>

\* LoopProcessor.run: "while not self._is_stopped()" with
\* LogQueueStreamProcessor._is_stopped
DrainCheck ==
  /\ dPc = "check"
  /\ LET enter == dStop /\ ~near_to_stop
     IN  /\ near_to_stop' = (near_to_stop \/ dStop)
         /\ last_msg_send_time' = IF enter THEN dNow ELSE last_msg_send_time
         /\ dObservedAt' = IF enter THEN dNow ELSE dObservedAt
  /\ dPc' = IF really_stop THEN "finally" ELSE "decide"
  /\ dExitAt' = IF really_stop THEN dNow ELSE dExitAt
  /\ UNCHANGED <<logQueue, dStop, dPause, really_stop, dNow, dSince, nArrivals, dLastIn,
                 nPauseFlips, dLastDrain, dDeclared, dWaited, logFile,
                 exceptDrain>>

\* LoopProcessor.run: is_active = self._new_activity_state(); the hooks do
\* nothing; the body chosen begins: queue.get(timeout=...) or sleep(0.01)
DrainDecide ==
  /\ dPc = "decide"
  /\ dPc' = IF ~dPause THEN "poll" ELSE "wait"
  /\ dSince' = dNow
  /\ dWaited' = (dWaited \/ (dPause /\ near_to_stop))
  /\ UNCHANGED <<logQueue, dStop, dPause, near_to_stop, really_stop, last_msg_send_time, dNow,
                 nArrivals, dLastIn, nPauseFlips, dObservedAt, dLastDrain, dDeclared, dExitAt,
                 logFile,
                 exceptDrain>>

\* _work_in_loop: queue.get returns a record; it is handled;
\* "if self._near_to_stop: self._last_msg_send_time = time.monotonic()"
DrainGet ==
  /\ dPc = "poll"
  /\ logQueue # <<>>
  /\ Head(logQueue) # None
  /\ logQueue' = Tail(logQueue)
  /\ logFile' = logFile \cup {Head(logQueue)}
  /\ last_msg_send_time' = IF near_to_stop THEN dNow ELSE last_msg_send_time
  /\ dLastDrain' = IF near_to_stop THEN dNow ELSE dLastDrain
  /\ dPc' = "check"
  /\ UNCHANGED <<dStop, dPause, near_to_stop, really_stop, dNow, dSince, nArrivals, dLastIn,
                 nPauseFlips, dObservedAt, dDeclared, dExitAt, dWaited, exceptDrain>>

\* _work_in_loop: queue.get times out: except Empty: "if self._near_to_stop: ..."
DrainEmpty ==
  /\ dPc = "poll"
  /\ logQueue = <<>>
  /\ dNow >= dSince + PollTimeout
  /\ IF finished_on_empty(near_to_stop, dNow - last_msg_send_time)
       THEN /\ really_stop' = TRUE
            /\ dDeclared' = [at |-> dNow, lastIn |-> dLastIn]
       ELSE UNCHANGED <<really_stop, dDeclared>>
  /\ dPc' = "check"
  /\ UNCHANGED <<logQueue, dStop, dPause, near_to_stop, last_msg_send_time, dNow, dSince,
                 nArrivals, dLastIn, nPauseFlips, dObservedAt, dLastDrain, dExitAt, dWaited,
                 logFile,
                 exceptDrain>>

\* LoopProcessor._wait_in_loop returns
DrainWaitEnd ==
  /\ dPc = "wait"
  /\ dNow >= dSince + WaitSleep
  /\ dPc' = "check"
  /\ UNCHANGED <<logQueue, dStop, dPause, near_to_stop, really_stop, last_msg_send_time, dNow,
                 dSince, nArrivals, dLastIn, nPauseFlips, dObservedAt, dLastDrain, dDeclared,
                 dExitAt, dWaited, logFile,
                 exceptDrain>>

\* LoopProcessor.run: finally: the stop event is set, _after_body logs STOPPED
DrainFinally ==
  /\ dPc = "finally"
  /\ dStop' = TRUE
  /\ dPc' = "done"
  /\ UNCHANGED <<logQueue, dPause, near_to_stop, really_stop, last_msg_send_time, dNow,
                 dSince, nArrivals, dLastIn, nPauseFlips, dObservedAt, dLastDrain, dDeclared,
                 dExitAt, dWaited, logFile,
                 exceptDrain>>

NextDrain ==
  \/ Tick
  \/ Arrive
  \/ RequestStop
  \/ PauseFlip
  \/ DrainRun
  \/ DrainCheck
  \/ DrainDecide
  \/ DrainGet
  \/ DrainEmpty
  \/ DrainWaitEnd
  \/ DrainFinally

SpecDrain == InitDrain /\ [][NextDrain]_vars

\* The moment the grace window is counted from: the last record put on the
\* queue after the stop request was observed, or the observation itself
LastArrival == IF dLastIn > dObservedAt THEN dLastIn ELSE dObservedAt

C32_NoExitBeforeStopObserved ==
  [][/\ (really_stop' /\ ~really_stop) =>
          /\ near_to_stop /\ dObservedAt >= 0
          /\ dPc = "poll" /\ logQueue = <<>>
          /\ dNow > dObservedAt + Grace
     /\ (dPc = "poll" /\ dPc' = "check" /\ logQueue = <<>> /\ dNow <= dObservedAt + Grace) =>
          ~really_stop'
     /\ (dExitAt' >= 0 /\ dExitAt < 0) =>
          /\ dPc = "check" /\ dPc' = "finally"
          /\ near_to_stop /\ really_stop /\ dStop
          /\ dExitAt' > dObservedAt + Grace]_vars

\* C32 witness: the worker is back at its stop check from the first empty
\* poll after it observed the stop request, and goes on
C32_Witness ==
  /\ dPc = "check" /\ near_to_stop /\ ~really_stop
  /\ nArrivals = 0 /\ nPauseFlips = 0
  /\ dSince = dObservedAt /\ dNow = dSince + PollTimeout

\* A time stamp one tick later on a clock that stands at MaxTime: every
\* distance to the clock grows by one tick, up to MaxTime
Shift(t) == IF t > 0 THEN t - 1 ELSE t

\* 5 ms pass after the clock has reached MaxTime: the distances the worker
\* measures (now - since, now - last message) keep growing
TickRoll ==
  /\ dNow = MaxTime
  /\ dPc \in {"poll", "wait"}
  /\ Blocked
  /\ dSince' = Shift(dSince)
  /\ last_msg_send_time' = Shift(last_msg_send_time)
  /\ dLastIn' = Shift(dLastIn)
  /\ dObservedAt' = Shift(dObservedAt)
  /\ dLastDrain' = Shift(dLastDrain)
  /\ dDeclared' = [at |-> Shift(dDeclared.at), lastIn |-> Shift(dDeclared.lastIn)]
  /\ UNCHANGED <<dPc, logQueue, dStop, dPause, near_to_stop, really_stop, dNow, nArrivals,
                 nPauseFlips, dExitAt, dWaited, logFile,
                 exceptDrain>>

\* The steps of the drain worker's own thread or process
DrainStep ==
  \/ DrainRun
  \/ DrainCheck
  \/ DrainDecide
  \/ DrainGet
  \/ DrainEmpty
  \/ DrainWaitEnd
  \/ DrainFinally

\* The drain worker under a scheduler that lets it run and a clock that goes
\* on; nothing is assumed about who logs, pauses or requests the stop.
SpecDrainFair ==
  /\ InitDrain
  /\ [][NextDrain \/ TickRoll]_vars
  /\ WF_vars(DrainStep)
  /\ WF_vars(Tick)
  /\ WF_vars(TickRoll)

\* C33: once the stop is requested, the drain worker eventually is out of
\* run(), whether its pause event is set or not (at most MaxArrivals records
\* arrive, so the producers do stop emitting).
C33_PausedDrainTerminates == dStop ~> (dPc = "done")

-----------------------------------------------------------------------------
(* SpecShutdown: the drain worker together with one LoopProcessor that     *)
(* logs to the queue and shares the stop event, as the workers of          *)
(* runner_log_test.py do, and with LogManager.stop_logging.  Both workers  *)
(* are started at time 0.                                                  *)

\* SleepProcessor(sleep_time=...): the time _work_in_loop sleeps, in ticks;
\* 0.005 s and 0.11 s
BodyTimes == {1, 22}
\* the time _after_body takes, in ticks
AfterTimes == {0, 22}
\* LogManager.stop_logging calls in one behaviour
MaxSentinels == 1

InitShutdown ==
  /\ NothingBuilt /\ PauseIdle /\ MailIdle /\ FmtIdle /\ DrainIdle /\ TermIdle /\ ActIdle /\ HookIdle /\ FailIdle
  /\ pPc = "idle"
  /\ pBody \in BodyTimes
  /\ pAfter \in AfterTimes
  /\ pSince = 0
  /\ nSentinels = 0
  /\ dSentinelAt = -1

\* The producer is in a call that lets time pass
ProducerBlocked ==
  \/ pPc = "done"
  \/ pPc = "work" /\ dNow < pSince + pBody
  \/ pPc = "after" /\ dNow < pSince + pAfter

\* 5 ms pass for both workers
ShutTick ==
  /\ dPc # "idle"
  /\ ProducerBlocked
  /\ Tick

\* LoopProcessor.run of the producer up to the while loop
ProducerRun ==
  /\ pPc = "idle"
  /\ pPc' = "check"
  /\ UNCHANGED <<pBody, pAfter, pSince, nSentinels, dSentinelAt, drainVars,
                 objVars, wireHist, runVars, loopHist, pauseVars, mailVars, fmtVars, termVars, actVars, hookVars, failVars>>

\* LoopProcessor.run of the producer: "while not self._is_stopped()"; when
\* the loop goes on _work_in_loop begins; when it ends, the finally block
\* logs "attempting to stop other processes", sets the stop event and
\* _after_body begins
ProducerCheck ==
  /\ pPc = "check"
  /\ pSince' = dNow
  /\ IF dStop
       THEN /\ pPc' = "after"
            /\ logQueue' = Append(logQueue, "attempt")
            /\ dLastIn' = dNow
       ELSE /\ pPc' = "work"
            /\ UNCHANGED <<logQueue, dLastIn>>
  /\ UNCHANGED <<pBody, pAfter, nSentinels, dSentinelAt,
                 dPc, dStop, dPause, near_to_stop, really_stop, last_msg_send_time, dNow,
                 dSince, nArrivals, nPauseFlips, dObservedAt, dLastDrain, dDeclared, dExitAt,
                 dWaited, logFile,
                 objVars, wireHist, runVars, loopHist, pauseVars, mailVars, fmtVars, termVars, actVars, hookVars, failVars>>

\* the producer's _work_in_loop returns
ProducerWorkEnd ==
  /\ pPc = "work"
  /\ dNow >= pSince + pBody
  /\ pPc' = "check"
  /\ UNCHANGED <<pBody, pAfter, pSince, nSentinels, dSentinelAt, drainVars,
                 objVars, wireHist, runVars, loopHist, pauseVars, mailVars, fmtVars, termVars, actVars, hookVars, failVars>>

\* the producer's _after_body returns; LoopProcessor.run: finally:
\* self.logger().info('- STOP ...'), the final record of the worker
ProducerAfterEnd ==
  /\ pPc = "after"
  /\ dNow >= pSince + pAfter
  /\ logQueue' = Append(logQueue, "STOP")
  /\ dLastIn' = dNow
  /\ pPc' = "done"
  /\ UNCHANGED <<pBody, pAfter, pSince, nSentinels, dSentinelAt,
                 dPc, dStop, dPause, near_to_stop, really_stop, last_msg_send_time, dNow,
                 dSince, nArrivals, nPauseFlips, dObservedAt, dLastDrain, dDeclared, dExitAt,
                 dWaited, logFile,
                 objVars, wireHist, runVars, loopHist, pauseVars, mailVars, fmtVars, termVars, actVars, hookVars, failVars>>

\* LogManager.stop_logging: cls.__common_logging_queue.put(None)
StopLogging ==
  /\ nSentinels < MaxSentinels
  /\ nSentinels' = nSentinels + 1
  /\ logQueue' = Append(logQueue, None)
  /\ UNCHANGED <<pPc, pBody, pAfter, pSince, dSentinelAt,
                 dPc, dStop, dPause, near_to_stop, really_stop, last_msg_send_time, dNow,
                 dSince, nArrivals, dLastIn, nPauseFlips, dObservedAt, dLastDrain, dDeclared,
                 dExitAt, dWaited, logFile,
                 objVars, wireHist, runVars, loopHist, pauseVars, mailVars, fmtVars, termVars, actVars, hookVars, failVars>>

\* _work_in_loop: queue.get returns None and self._logger_private.handle(None)
\* is called.  Logger.handle(None) raises AttributeError on a Python before
\* 3.12 (callHandlers reads record.levelno) and "except Exception" logs it,
\* skipping the reset of _last_msg_send_time; from 3.12 on handle returns at
\* "if not maybe_record" and the reset is made.  Nothing else is done with None.
DrainSentinel(raises) ==
  /\ dPc = "poll"
  /\ logQueue # <<>>
  /\ Head(logQueue) = None
  /\ logQueue' = Tail(logQueue)
  /\ dSentinelAt' = dNow
  /\ last_msg_send_time' = IF near_to_stop /\ ~raises THEN dNow ELSE last_msg_send_time
  /\ dLastDrain' = IF near_to_stop /\ ~raises THEN dNow ELSE dLastDrain
  /\ dPc' = "check"
  /\ UNCHANGED <<pPc, pBody, pAfter, pSince, nSentinels,
                 dStop, dPause, near_to_stop, really_stop, dNow, dSince, nArrivals, dLastIn,
                 nPauseFlips, dObservedAt, dDeclared, dExitAt, dWaited, logFile,
                 objVars, wireHist, runVars, loopHist, pauseVars, mailVars, fmtVars, termVars, actVars, hookVars, failVars>>

NextShutdown ==
  \/ ShutTick
  \/ RequestStop
  \/ StopLogging
  \/ ProducerRun
  \/ ProducerCheck
  \/ ProducerWorkEnd
  \/ ProducerAfterEnd
  \/ DrainRun
  \/ DrainCheck
  \/ DrainDecide
  \/ DrainGet
  \/ \E raises \in BOOLEAN : DrainSentinel(raises)
  \/ DrainEmpty
  \/ DrainFinally

SpecShutdown == InitShutdown /\ [][NextShutdown]_vars

\* C21: when the drain worker has left its loop, the final STOP record of
\* the worker that shares its stop event is in the log file.
C21_NoFinalEntryLost == dExitAt >= 0 => "STOP" \in logFile

\* C22: once the drain worker has popped the sentinel it runs no further
\* iteration: it leaves its loop at that very time, whatever the stop event
\* and the grace window.
C22_SentinelStopsAtOnce ==
  dSentinelAt >= 0 =>
    /\ dPc \in {"check", "finally", "done"}
    /\ (IF dExitAt >= 0 THEN dExitAt ELSE dNow) = dSentinelAt

-----------------------------------------------------------------------------
(* SpecTerm: workers are constructed in one process, and SIGTERM is        *)
(* delivered to it.  signal.signal keeps one handler per signal number for *)
(* the process: each Processor.__init__ replaces the one registered before.*)

\* SIGTERM deliveries in one behaviour
MaxTerm == 2

InitTerm == InitWire

\* Processor._is_stopped of w once set_stop_event_to_stop of h has run
stopped_after(w, h) ==
  IF stop_event[w] = None
    THEN stop_me_if_event_is_not_defined[w] \/ w = h
    ELSE ev[stop_event[w]] \/ stop_event[w] = stop_event[h]

\* SIGTERM is delivered: Python calls the handler registered last,
\* Processor._terminate of that worker: it logs, calls
\* set_stop_event_to_stop(), evaluates self._stop_event.is_set() for the
\* debug message (AttributeError when _stop_event is None) and sleeps
Terminate ==
  /\ termHandler # None
  /\ nTerm < MaxTerm
  /\ nTerm' = nTerm + 1
  /\ set_stop_event_to_stop(termHandler)
  /\ termFor' = {w \in Workers : constructed[w]}
  /\ termStopped' = {w \in Workers : constructed[w] /\ stopped_after(w, termHandler)}
  /\ termRaised' = (stop_event[termHandler] = None)
  /\ UNCHANGED <<fixedVars, is_active, runVars, loopHist, termHandler,
                 pauseVars, mailVars, fmtVars, drainVars, shutVars, actVars, hookVars, failVars>>

NextTerm ==
  \/ \E w \in Loops : \E se \in CtorStopArgs(w) : \E we \in CtorWaitArgs(w) :
       \E sa \in CtorStartActive : NewLoopProcessor(w, se, we, sa)
  \/ \E r \in Runners : \E se \in CtorStopArgs(r) : \E wa \in CtorWaitArgs(r) :
       NewProcessorsRunner(r, se, wa)
  \/ Terminate

SpecTerm == InitTerm /\ [][NextTerm]_vars

\* C23: after a SIGTERM delivered to the process, every worker that had been
\* constructed in it is stopped (its token is set, or its private flag when it
\* has no token), and the handler has returned without raising.
C23_TerminateStopsEveryWorker ==
  nTerm > 0 => termStopped = termFor /\ ~termRaised

-----------------------------------------------------------------------------
(* SpecLoop: run() of the loop workers B and D on their own, as their      *)
(* constructors leave them (no runner): each with or without a pause       *)
(* event, with start_active True or False, without a stop event.           *)

InitLoop == InitPause

\* The main program, or a thread made for it, calls run() of loop worker w
RunLoop(w) ==
  /\ w \in Loops
  /\ pc[w] = "idle"
  /\ pc' = [pc EXCEPT ![w] = "before"]
  /\ UNCHANGED <<objVars, wireHist, exc, outcome, tasks, idx, started, hooks, taskLog, loopHist>>
  /\ UNCHANGED extVars

NextLoop ==
  \/ \E w \in Loops : RunLoop(w)
  \/ \E w \in Loops : \E raises \in BOOLEAN : LoopBeforeBody(w, raises)
  \/ \E w \in Loops : \E raises \in BOOLEAN : LoopStart(w, raises)
  \/ \E w \in Loops : LoopCheck(w)
  \/ \E w \in Loops : \E raises \in BOOLEAN : LoopDecide(w, raises)
  \/ \E w \in Loops : \E raises \in BOOLEAN : LoopBody(w, raises)
  \/ \E w \in Loops : \E raises \in BOOLEAN : LoopFinallyStop(w, raises)
  \/ \E w \in Loops : \E raises \in BOOLEAN : LoopAfterBody(w, raises)
  \/ \E w \in Loops : Stop(w)
  \/ \E e \in Events : \E to \in BOOLEAN : PauseChange(e, to)

SpecLoop == InitLoop /\ [][NextLoop]_vars

\* Stop is requested for w: its stop event is set, or its private flag when
\* it has no stop event
StopRequested(w) ==
  IF stop_event[w] # None THEN ev[stop_event[w]] ELSE stop_me_if_event_is_not_defined[w]

\* The activity wanted of w: its pause event is not set, or its private flag
\* says so when it has no pause event
DesiredActive(w) ==
  IF is_waiting_event[w] # None
    THEN ~ev[is_waiting_event[w]]
    ELSE ~is_waiting_if_waiting_event_is_not_defined[w]

\* C27: every iteration of a loop worker begins with the stop check, and the
\* loop is left when the check finds the stop requested; the edge hooks and
\* the loop bodies are reached only through a check that found no stop; the
\* activity an iteration settles on is "pause event not set" with a pause
\* event and the private flag without one, and the body called is
\* _work_in_loop exactly when the worker is active.
C27_StopCheckFirst ==
  [][\A w \in Loops :
       /\ (pc[w] = "check" /\ pc'[w] # "check") =>
            pc'[w] = (IF StopRequested(w) THEN "l_finally" ELSE "decide")
       /\ (pc'[w] = "decide" /\ pc[w] # "decide") => (pc[w] = "check" /\ ~StopRequested(w))
       /\ (pc'[w] = "body" /\ pc[w] # "body") => pc[w] = "decide"
       /\ is_active'[w] # is_active[w] => pc[w] \in {"l_init", "decide"}
       /\ (pc[w] = "decide" /\ pc'[w] # "decide") => is_active'[w] = DesiredActive(w)
       /\ (nBecameActive'[w] > nBecameActive[w] \/ nBecameInactive'[w] > nBecameInactive[w]) =>
            pc[w] \in {"l_init", "decide"}
       /\ (w \in Observed /\ pc[w] = "body" /\ pc'[w] # "body") =>
            lastBody'[w].body = (IF is_active[w] THEN "work" ELSE "wait")]_vars

\* C27 witness: B, which has no pause event and was built with
\* start_active=False, has left its loop at a stop check after waiting, while
\* D is about to call _wait_in_loop because its pause event is set
C27_Witness ==
  /\ is_waiting_event["B"] = None /\ ~start_active["B"]
  /\ pc["B"] = "l_finally" /\ StopRequested("B") /\ ~is_active["B"]
  /\ is_waiting_event["D"] # None /\ ev[is_waiting_event["D"]]
  /\ pc["D"] = "body" /\ ~is_active["D"]

-----------------------------------------------------------------------------
(* SpecActivate: the ACTIVATE and DEACTIVATE handlers of the loop workers  *)
(* B and D (LoopProcessor.activate, LoopProcessor.deactivate), run by the  *)
(* interpreter between two instructions of the main thread, while other    *)
(* threads or processes may call change_activity_state themselves.         *)

\* ACTIVATE/DEACTIVATE deliveries in one behaviour
MaxActs == 3

\* change_activity_state calls made by others in one behaviour
MaxForeignCalls == 1

ActSignals == {"ACTIVATE", "DEACTIVATE"}

exceptAct == <<wireHist, runVars, loopHist, pauseVars, mailVars, fmtVars, drainVars, shutVars,
               termVars, hookVars, failVars>>

InitActivate == InitPause

\* A handler that toggles whatever the state is
toggles_always(sig, active) == TRUE

\* LoopProcessor.activate: "if not self._new_activity_state()";
\* LoopProcessor.deactivate: "if self._new_activity_state()"
toggles(sig, active) == IF sig = "ACTIVATE" THEN ~active ELSE active

\* The pause events and the private flags, as they are now
Snap == [ev |-> ev, priv |-> is_waiting_if_waiting_event_is_not_defined]

\* Nobody is inside change_activity_state
NoCallInProgress == \A v \in Loops : cas[v] = "idle"

\* What a handler invocation leaves behind when it returns, given the events
\* and flags it leaves
Returned(a, post) ==
  LET clean == a.clean /\ nCalls = a.calls /\ NoCallInProgress
  IN  [w |-> a.w, sig |-> a.sig, clean |-> clean, rep |-> a.rep /\ clean,
       calls |-> nCalls, prev |-> a.prev, post |-> post]

\* Signal sig is delivered to the process of w: the handler tests
\* _new_activity_state() and returns when there is nothing to change
ActTest(w, sig) ==
  /\ w \in Loops
  /\ constructed[w]
  /\ act.pc = "idle"
  /\ nActs < MaxActs
  /\ nActs' = nActs + 1
  /\ LET a == [pc |-> "call", w |-> w, sig |-> sig,
               clean |-> NoCallInProgress,
               rep |-> /\ lastAct.w = w /\ lastAct.sig = sig /\ lastAct.clean
                       /\ lastAct.calls = nCalls /\ NoCallInProgress,
               calls |-> nCalls, prev |-> Snap]
     IN  IF toggles(sig, new_activity_state(w))
           THEN /\ act' = a
                /\ UNCHANGED lastAct
           ELSE /\ act' = NoAct
                /\ lastAct' = Returned(a, Snap)
  /\ UNCHANGED <<objVars, exceptAct>>

\* The handler's change_activity_state, up to the test of is_set(); without
\* a pause event the whole call
ActRead ==
  /\ act.pc = "call"
  /\ IF is_waiting_event[act.w] # None
       THEN /\ act' = [act EXCEPT !.pc = IF toggled(ev[is_waiting_event[act.w]]) THEN "set" ELSE "clear"]
            /\ UNCHANGED <<lastAct, is_waiting_if_waiting_event_is_not_defined>>
       ELSE /\ is_waiting_if_waiting_event_is_not_defined' =
                 [is_waiting_if_waiting_event_is_not_defined EXCEPT ![act.w] = toggled(@)]
            /\ act' = NoAct
            /\ lastAct' = Returned(act, [Snap EXCEPT !.priv[act.w] = toggled(@)])
  /\ UNCHANGED <<constructed, stop_event, stop_me_if_event_is_not_defined, is_waiting_event,
                 start_active, is_active, ev, nActs, exceptAct>>

\* The handler's set() or clear(), and its return
ActWrite ==
  /\ act.pc \in {"set", "clear"}
  /\ ev' = [ev EXCEPT ![is_waiting_event[act.w]] = (act.pc = "set")]
  /\ act' = NoAct
  /\ lastAct' = Returned(act, [Snap EXCEPT !.ev[is_waiting_event[act.w]] = (act.pc = "set")])
  /\ UNCHANGED <<constructed, stop_event, stop_me_if_event_is_not_defined, is_waiting_event,
                 is_waiting_if_waiting_event_is_not_defined, start_active, is_active,
                 nActs, exceptAct>>

\* Another thread or process begins a change_activity_state call on w
ForeignChangeBegin(w) ==
  /\ nCalls < MaxForeignCalls
  /\ ChangeBegin(w)

NextActivate ==
  \/ \E w \in Loops : \E sig \in ActSignals : ActTest(w, sig)
  \/ ActRead
  \/ ActWrite
  \/ \E w \in Loops : ForeignChangeBegin(w)
  \/ \E w \in Loops : ChangeEnd(w)

SpecActivate == InitActivate /\ [][NextActivate]_vars

\* Nothing has called change_activity_state since the last handler returned
NothingSince == lastAct.clean /\ nCalls = lastAct.calls /\ NoCallInProgress /\ act.pc = "idle"

\* C31: when a handler invocation that no change_activity_state call of
\* anybody else overlapped has returned, the desired activity of its worker
\* is active after ACTIVATE and waiting after DEACTIVATE; and when it was the
\* second of two invocations for the same signal and worker with no call in
\* between, it has left every pause event and every private flag as they were.
C31_HandlersIdempotent ==
  /\ lastAct.clean =>
       DesiredIn(lastAct.post, lastAct.w) = (lastAct.sig = "ACTIVATE")
  /\ NothingSince =>
       new_activity_state(lastAct.w) = (lastAct.sig = "ACTIVATE")
  /\ lastAct.rep => lastAct.post = lastAct.prev

\* C31 witness: a second DEACTIVATE in a row has returned for D, whose pause
\* event the first one had to set
C31_Witness ==
  /\ lastAct.rep /\ lastAct.w = "D" /\ lastAct.sig = "DEACTIVATE"
  /\ is_waiting_event["D"] = "P" /\ start_active["D"]
  /\ ev["P"] /\ nCalls = 0

\* C36 (on SpecPause): when B and D share the pause event P and have made one
\* change_activity_state call each, the two calls overlapping, then after
\* both calls have returned P is as it was before them: not set.
C36_AtomicToggle ==
  (/\ is_waiting_event["B"] = "P" /\ is_waiting_event["D"] = "P"
   /\ nCalls = 2 /\ chain.n = -1 /\ NoCallInProgress) =>
    ~ev["P"]

-----------------------------------------------------------------------------
(* SpecSignals: one process that hosts a loop worker and user-signal       *)
(* consumers.  SignalContext.COMMON_SIGNAL and SignalsEnum.ACTIVATE are    *)
(* both signal.SIGUSR1, and signal.signal keeps one handler per signal     *)
(* number: the one registered last.                                        *)

InitSignals == InitWire

\* The LoopProcessor of the process is constructed, before any signal is sent
HostLoopProcessor(w, we, sa) ==
  /\ Quiet /\ sent = <<>> /\ nSpurious = 0
  /\ \A v \in Loops : ~constructed[v]
  /\ NewLoopProcessor(w, None, we, sa)

\* SIGUSR1 is handled while on_common_signal of a consumer is registered
MailHandlerEnter ==
  /\ sigHandler \in Contexts
  /\ HandlerEnter

\* SIGUSR1 is handled while activate of loop worker sigHandler is registered:
\* LoopProcessor.activate, with the change_activity_state it may call
ActivateEnter ==
  /\ sigPending
  /\ sigHandler \in Loops
  /\ sigPending' = FALSE
  /\ nActs' = nActs + 1
  /\ LET w == sigHandler
     IN  IF toggles("ACTIVATE", new_activity_state(w))
           THEN IF is_waiting_event[w] # None
                  THEN /\ ev' = [ev EXCEPT ![is_waiting_event[w]] = toggled(@)]
                       /\ UNCHANGED is_waiting_if_waiting_event_is_not_defined
                  ELSE /\ is_waiting_if_waiting_event_is_not_defined' =
                            [is_waiting_if_waiting_event_is_not_defined EXCEPT ![w] = toggled(@)]
                       /\ UNCHANGED ev
           ELSE UNCHANGED <<ev, is_waiting_if_waiting_event_is_not_defined>>
  /\ UNCHANGED <<constructed, stop_event, stop_me_if_event_is_not_defined, is_waiting_event,
                 start_active, is_active, wireHist, runVars, loopHist>>
  /\ UNCHANGED <<consumers, sigHandler, file, data, lock, nIno, snd, sent, frames, dispatched,
                 seqOK, lww, nSpurious, handlerErr, lastRecv>>
  /\ UNCHANGED <<act, lastAct, pauseVars, fmtVars, drainVars, shutVars, termVars, hookVars, failVars>>

NextSignals ==
  \/ \E w \in Loops : \E we \in CtorWaitArgs(w) : \E sa \in BOOLEAN : HostLoopProcessor(w, we, sa)
  \/ \E c \in Contexts : NewUserSignalConsumer(c)
  \/ \E c \in Contexts : \E id \in MailIds : SendOpen(c, id)
  \/ SendWrite
  \/ SendKill
  \/ SpuriousDoorbell
  \/ MailHandlerEnter
  \/ ActivateEnter
  \/ RecvOpen
  \/ RecvLock
  \/ RecvRead
  \/ RecvRemove
  \/ RecvUnlock
  \/ RecvDispatch

SpecSignals == InitSignals /\ [][NextSignals]_vars

\* The process hosts a loop worker and a consumer
HostsBoth == consumers # <<>> /\ \E w \in Loops : constructed[w]

\* No send_user_signal has reached its os.kill
NoDoorbellYet == sent = <<>> \/ (Len(sent) = 1 /\ snd.pc # "idle")

\* C37: in a process that hosts a loop worker and a consumer, (1) as long as
\* the only SIGUSR1 sent are doorbells of send_user_signal, no activate
\* handler has run and every pause event and private flag is as constructed;
\* (2) as long as no doorbell has been raised (only ACTIVATE was sent), no
\* mailbox handler has run and nothing was taken from a mailbox.
C37_DoorbellAndActivateSeparate ==
  HostsBoth =>
    /\ nSpurious = 0 =>
         /\ nActs = 0
         /\ \A e \in Events : ~ev[e]
         /\ \A w \in Loops :
              constructed[w] => is_waiting_if_waiting_event_is_not_defined[w] = ~start_active[w]
    /\ NoDoorbellYet =>
         /\ frames = <<>>
         /\ lastRecv = None
         /\ dispatched = <<>>

-----------------------------------------------------------------------------
(* SpecStop: stop requests made while the runners C and A are built around  *)
(* the loop workers B = LoopProcessor() and D = LoopProcessor(), and while  *)
(* stop events are attached by hand                                         *)

InitStop ==
  /\ InitPause
  /\ is_waiting_event = [w \in Workers |-> None]
  /\ start_active = [w \in Workers |-> TRUE]

\* Processor.stop() on a worker that exists
StopBuilt(w) ==
  /\ constructed[w]
  /\ Stop(w)

NextStop ==
  \/ \E r \in Runners : \E se \in CtorStopArgs(r) : NewProcessorsRunner(r, se, Omitted)
  \/ \E w \in Workers : \E arg \in {"S", "S2", NotEvent} : SetStopEvent(w, arg)
  \/ \E r \in Runners : SetEventsToProcessors(r)
  \/ \E w \in Workers : StopBuilt(w)

SpecStop == InitStop /\ [][NextStop]_vars

\* C38: an event that is set stays set, a private stop flag that is True
\* stays True, and a worker whose _is_stopped() is True never has it False
\* again.
C38_StopMonotonic ==
  [][/\ \A e \in Events : ev[e] => ev'[e]
     /\ \A w \in Workers :
          (constructed[w] /\ stop_me_if_event_is_not_defined[w]) =>
            stop_me_if_event_is_not_defined'[w]
     /\ \A w \in Workers : (constructed[w] /\ is_stopped(w)) => is_stopped(w)']_vars

\* C39 (on SpecLoop): the edge hooks a loop worker has called in its run()
\* came in the order _became_active, _became_inactive, _became_active, ...;
\* and when the worker is about to call a loop body, the body is
\* _work_in_loop (the worker is active) only when the hook called last is
\* _became_active, and _wait_in_loop only when no hook has been called or
\* the one called last is _became_inactive.
C39_HooksAlternate ==
  \A w \in Observed :
    /\ hookAlt[w]
    /\ pc[w] = "body" =>
         IF is_active[w]
           THEN lastHook[w] = "active"
           ELSE lastHook[w] \in {None, "inactive"}

\* C39 witness: B, built with start_active=True, has called _became_active,
\* then _became_inactive when its pause event was set, and is about to call
\* _wait_in_loop
C39_Witness ==
  /\ start_active["B"] /\ is_waiting_event["B"] = "P" /\ ev["P"]
  /\ pc["B"] = "body" /\ ~is_active["B"]
  /\ lastHook["B"] = "inactive" /\ hookAlt["B"]

-----------------------------------------------------------------------------
(* SpecSendFail: the mailbox of SpecMail with a producer that also calls    *)
(* send_user_signal with ids the context's struct format cannot hold.       *)

\* Ids struct.pack rejects for every unsigned one byte format
UnencodableIds == {-1, 256}

exceptFail == <<objVars, wireHist, runVars, loopHist, pauseVars, fmtVars, drainVars, shutVars,
                termVars, actVars, hookVars>>

InitSendFail == InitMail

\* SignalContext.send_user_signal(pid, id) for an id that does not fit:
\* set_signal_id runs open(self._filename, 'wb'), which creates the file or
\* truncates it to no bytes, then struct.pack raises struct.error; the with
\* block closes the file, the error leaves send_user_signal, and os.kill is
\* not reached
SendFail(c, id) ==
  /\ consumers # <<>>
  /\ snd.pc = "idle"
  /\ nFailed < MaxFailed
  /\ ~StructFits(get_struct_format(UserSignals.len), id)
  /\ LET ino == IF file[c] = 0 THEN nIno + 1 ELSE file[c]
     IN  /\ file' = [file EXCEPT ![c] = ino]
         /\ nIno' = IF file[c] = 0 THEN nIno + 1 ELSE nIno
         /\ data' = [data EXCEPT ![ino] = 0]
  /\ nFailed' = nFailed + 1
  /\ UNCHANGED <<consumers, sigHandler, lock, snd, sent, sigPending, frames, dispatched,
                 seqOK, lww, nSpurious, handlerErr, lastRecv, exceptFail>>

NextSendFail ==
  \/ \E c \in Contexts : NewUserSignalConsumer(c)
  \/ \E c \in Contexts : \E id \in MailIds : SendOpen(c, id)
  \/ \E c \in Contexts : \E id \in UnencodableIds : SendFail(c, id)
  \/ SendWrite
  \/ SendKill
  \/ SpuriousDoorbell
  \/ HandlerEnter
  \/ RecvOpen
  \/ RecvLock
  \/ RecvRead
  \/ RecvRemove
  \/ RecvUnlock
  \/ RecvDispatch

SpecSendFail == InitSendFail /\ [][NextSendFail]_vars

\* The value the mailbox file of context c holds (0: no file, or no bytes)
Pending(c) == IF file[c] = 0 THEN 0 ELSE data[file[c]]

\* C40 (on SpecSendFail): a send_user_signal that fails because the id does
\* not fit the context's struct format has no effect: every mailbox path names
\* the file it named before, a value that was pending in a mailbox is still
\* in it, and no doorbell is raised.
C40_FailedSendHasNoEffect ==
  [][nFailed' > nFailed =>
       /\ file' = file
       /\ \A c \in Contexts : Pending(c) # 0 => Pending(c)' = Pending(c)
       /\ sigPending' = sigPending]_vars

=============================================================================
